---- MODULE Spec2Model ----
(***************************************************************************)
(* Fixture generators of python-testgen (CIDR / IP network arithmetic).   *)
(*                                                                         *)
(* Addresses are non-negative integers of a fixed width per family.  The   *)
(* generators work on 32-bit (V4) and 128-bit (V6) addresses; TLC's        *)
(* integers are 32-bit, so both widths are scaled down (Bits4, Bits6) and  *)
(* every prefix-valued constant of the source is scaled with its family's  *)
(* width (25 of 32 becomes (25 * Bits4) \div 32, and so on).  Counts       *)
(* (caps, budgets, loop limits) are kept as they are in the source.        *)
(*                                                                         *)
(* An address literal (the str() of an address) is modelled as a sequence  *)
(* of characters: the digits of the value, decimal for V4 and hexadecimal  *)
(* for V6, without leading zeros, closed by the family's separator ('.'    *)
(* or ':').  Like the dotted-quad and colon-hex forms it is variable-      *)
(* length, so that the order of the literals is not the order of the       *)
(* values, and the family can be read off the literal.                     *)
(***************************************************************************)
EXTENDS Integers, Sequences, FiniteSets, TLC

\* ------------------------------------------------------------------ bounds
Bits4 == 5              \* scaled width of family V4 (32 in the source)
Bits6 == Bits4 + 1      \* scaled width of family V6 (128 in the source)
MaxCap == 4             \* largest addr_steps_cap drawn for the sampler
MaxBudget == 9          \* largest false-case budget drawn
RngMod == 8             \* number of states of the modelled random generator
DrawCount == 2          \* random values one generator run consumes
MaxRuns == 3            \* generator invocations in one process
MaxNets == 2            \* longest list of valid networks given to the pair builder
MaxFill == 1            \* random networks per family added by build_suite
MaxPairs == 3           \* largest n_pairs given to build_suite

\* ------------------------------------------------------------------- state
\* sample_addresses_for_network at work on network sample_n
VARIABLES sample_n, addr_steps_cap, sample_out, sample_k, sample_pc, sample_ret

\* the per-network builders applied to network c_outer
VARIABLES c_outer, c_scale, c_budget, c_new_prefix, c_cases, c_errors, c_child, c_op

\* mergeable_and_supernet / make_case applied to the pair (m_a, m_b)
VARIABLES m_a, m_b, m_parent, m_res, m_case, m_op

\* the process-wide random generator and the generator runs made so far
VARIABLES rng, overlongs_imported, runs

\* gen_containment's list assembly: the preset, the list being built, the
\* position in the sequence of loop iterations, the cases appended so far
VARIABLES a_scale, a_list, a_idx, a_cases

\* extract_python_tests' pair building: the input list of network literals,
\* the position in it, the keys seen, the pairs kept, the truth table
VARIABLES x_nets, x_idx, x_seen, x_pairs, x_tt, x_pc

\* set_operations_examples: the input list, the two loop positions, the three
\* lists built so far, and whether the function is running, has returned or
\* has raised
VARIABLES s_nets, s_i, s_j, s_union, s_intersection, s_difference, s_pc

\* gen_properties.build_suite: the requested counts, the networks collected,
\* the test_networks records, the position in the function
VARIABLES b_n_v4, b_n_v6, b_nets, b_test_networks, b_pc

\* gen_netmask.build_cases: the variant and prefix the loops are at, the
\* cases appended so far, and whether the function is running, has returned
\* or has raised
VARIABLES nm_variant, nm_p, nm_cases, nm_pc

\* gen_overlongs: the operation applied, its operands, its outcome and the
\* test record built from it
VARIABLES o_op, o_a, o_b, o_s, o_res, o_test

\* ip_sort.main: the list a pair comes from, the literals given for it (none
\* for a random pair), the two addresses built and the case appended
VARIABLES t_op, t_lit_a, t_lit_b, t_a, t_b, t_case

\* random_nonmergeable_pair: the two networks, the failed and the total draws
\* of the disjoint loop, the position in the function, and the case
\* random_cases makes of the pair
VARIABLES n_a, n_b, n_tries, n_draws, n_pc, n_case

\* the adjacency loops of build_suite: the deduplicated pool, n_pairs, the
\* loop the function is in, the iterations made in it, the base drawn last
\* and the cases appended
VARIABLES j_nets, j_n_pairs, j_pc, j_k, j_base, j_cases

sampleVars == <<sample_n, addr_steps_cap, sample_out, sample_k, sample_pc, sample_ret>>
containVars == <<c_outer, c_scale, c_budget, c_new_prefix, c_cases, c_errors, c_child, c_op>>

mergeVars == <<m_a, m_b, m_parent, m_res, m_case, m_op>>

seedVars == <<rng, overlongs_imported, runs>>

assembleVars == <<a_scale, a_list, a_idx, a_cases>>

pairVars == <<x_nets, x_idx, x_seen, x_pairs, x_tt, x_pc>>

setopsVars == <<s_nets, s_i, s_j, s_union, s_intersection, s_difference, s_pc>>

suiteVars == <<b_n_v4, b_n_v6, b_nets, b_test_networks, b_pc>>

netmaskVars == <<nm_variant, nm_p, nm_cases, nm_pc>>

overlongVars == <<o_op, o_a, o_b, o_s, o_res, o_test>>

sortVars == <<t_op, t_lit_a, t_lit_b, t_a, t_b, t_case>>

nonmergeVars == <<n_a, n_b, n_tries, n_draws, n_pc, n_case>>

adjacencyVars == <<j_nets, j_n_pairs, j_pc, j_k, j_base, j_cases>>

vars == <<sampleVars, containVars, mergeVars, seedVars, assembleVars, pairVars, setopsVars,
          suiteVars, netmaskVars, overlongVars, sortVars, nonmergeVars, adjacencyVars>>

\* what each generator leaves alone
notSample == <<containVars, mergeVars, seedVars, assembleVars, pairVars, setopsVars, suiteVars,
          netmaskVars, overlongVars, sortVars, nonmergeVars, adjacencyVars>>
notContain == <<sampleVars, mergeVars, seedVars, assembleVars, pairVars, setopsVars, suiteVars,
          netmaskVars, overlongVars, sortVars, nonmergeVars, adjacencyVars>>
notMerge == <<sampleVars, containVars, seedVars, assembleVars, pairVars, setopsVars, suiteVars,
          netmaskVars, overlongVars, sortVars, nonmergeVars, adjacencyVars>>
notAssemble == <<sampleVars, containVars, mergeVars, seedVars, pairVars, setopsVars, suiteVars,
          netmaskVars, overlongVars, sortVars, nonmergeVars, adjacencyVars>>
notPairs == <<sampleVars, containVars, mergeVars, seedVars, assembleVars, setopsVars, suiteVars,
          netmaskVars, overlongVars, sortVars, nonmergeVars, adjacencyVars>>
notSetops == <<sampleVars, containVars, mergeVars, seedVars, assembleVars, pairVars, suiteVars,
          netmaskVars, overlongVars, sortVars, nonmergeVars, adjacencyVars>>
notSuite == <<sampleVars, containVars, mergeVars, seedVars, assembleVars, pairVars,
              setopsVars, netmaskVars, overlongVars, sortVars, nonmergeVars, adjacencyVars>>
notSeed == <<sampleVars, containVars, mergeVars, assembleVars, pairVars, setopsVars, suiteVars,
          netmaskVars, overlongVars, sortVars, nonmergeVars, adjacencyVars>>
notNetmask == <<sampleVars, containVars, mergeVars, seedVars, assembleVars, pairVars,
                 setopsVars, suiteVars, overlongVars, sortVars, nonmergeVars, adjacencyVars>>
notOverlong == <<sampleVars, containVars, mergeVars, seedVars, assembleVars, pairVars,
                  setopsVars, suiteVars, netmaskVars, sortVars, nonmergeVars, adjacencyVars>>
notSort == <<sampleVars, containVars, mergeVars, seedVars, assembleVars, pairVars,
              setopsVars, suiteVars, netmaskVars, overlongVars, nonmergeVars, adjacencyVars>>
notNonmerge == <<sampleVars, containVars, mergeVars, seedVars, assembleVars, pairVars,
                  setopsVars, suiteVars, netmaskVars, overlongVars, sortVars, adjacencyVars>>
notAdjacency == <<sampleVars, containVars, mergeVars, seedVars, assembleVars, pairVars,
                   setopsVars, suiteVars, netmaskVars, overlongVars, sortVars,
                   nonmergeVars>>

\* ----------------------------------------------------------------- helpers
Min(x, y) == IF x <= y THEN x ELSE y
Max(x, y) == IF x >= y THEN x ELSE y

RECURSIVE Pow2(_)
Pow2(e) == IF e <= 0 THEN 1 ELSE 2 * Pow2(e - 1)


\* ------------------------------------------------ address / network values
BITS(v) == IF v = 4 THEN Bits4 ELSE Bits6

\* ip_network((a, p), strict=True): a network value
Network(v, a, p) == [version |-> v, addr |-> a, prefixlen |-> p]

\* Python's None where a network is expected: a network of no family
None == [version |-> 0, addr |-> 0, prefixlen |-> 0]

max_prefixlen(n) == BITS(n.version)
num_addresses(n) == Pow2(max_prefixlen(n) - n.prefixlen)
network_address(n) == n.addr
broadcast_address(n) == n.addr + num_addresses(n) - 1

\* every canonical (host bits zero) network of a family
NetworksOf(v) ==
    UNION { { Network(v, i * Pow2(BITS(v) - p), p) : i \in 0..(Pow2(p) - 1) }
            : p \in 0..BITS(v) }
AllNetworks == NetworksOf(4) \cup NetworksOf(6)

\* ip_address(int): the family is inferred from the magnitude of the integer
ip_address(x) == [version |-> IF x < Pow2(Bits4) THEN 4 ELSE 6, value |-> x]

\* Characters of a literal, numbered in Python's character order:
\* '.' < '/' < '0'..'9' < ':' < 'a'..'f'
CharOfDigit(d) == IF d <= 9 THEN d + 2 ELSE d + 3
DigitOfChar(c) == IF c <= 11 THEN c - 2 ELSE c - 3
SepOf(v) == IF v = 4 THEN 0 ELSE 12
Slash == <<1>>

RECURSIVE Digits(_, _)
Digits(x, radix) ==
    IF x < radix THEN <<CharOfDigit(x)>>
    ELSE Append(Digits(x \div radix, radix), CharOfDigit(x % radix))

\* str(address): the digits of the value in the family's radix, no leading
\* zeros, closed by the family's separator
str(a) == Append(Digits(a.value, IF a.version = 4 THEN 10 ELSE 16), SepOf(a.version))

RECURSIVE ParseDigits(_, _)
ParseDigits(t, radix) ==
    IF Len(t) = 0 THEN 0
    ELSE ParseDigits(SubSeq(t, 1, Len(t) - 1), radix) * radix + DigitOfChar(t[Len(t)])

\* ip_address(literal): the separator tells the family, the digits the value
addr(s) ==
    LET v == IF s[Len(s)] = SepOf(4) THEN 4 ELSE 6
    IN  [version |-> v,
         value |-> ParseDigits(SubSeq(s, 1, Len(s) - 1), IF v = 4 THEN 10 ELSE 16)]

\* address in network: same family and inside the interval
InNet(a, n) ==
    /\ a.version = n.version
    /\ network_address(n) <= a.value
    /\ a.value <= broadcast_address(n)

\* order of Python strings: character by character, a proper prefix first
StrLess(s, t) ==
    \/ \E i \in 1..Min(Len(s), Len(t)) :
          /\ \A j \in 1..(i - 1) : s[j] = t[j]
          /\ s[i] < t[i]
    \/ /\ Len(s) < Len(t)
       /\ \A j \in 1..Len(s) : s[j] = t[j]

\* sorted(set(...)) over address literals
RECURSIVE sorted(_)
sorted(S) ==
    IF S = {} THEN <<>>
    ELSE LET m == CHOOSE x \in S : \A y \in S \ {x} : StrLess(x, y)
         IN  <<m>> \o sorted(S \ {m})

Range(q) == { q[i] : i \in 1..Len(q) }

\* ------------------------------------------- sampling (gen_containment.py)
Address(v, x) == [version |-> v, value |-> x]

boundary_hi_mut(n) == broadcast_address(n) + 2
boundary_hi(n) == broadcast_address(n) + 1

derive_boundary_addresses(n) ==
    LET lo == network_address(n)
        hi == broadcast_address(n)
        fam_bits == IF n.version = 4 THEN Bits4 ELSE Bits6
        minv == 0
        maxv == Pow2(fam_bits) - 1
        last == network_address(n) + (num_addresses(n) - 1)
        \* str(n.network_address), str(n.broadcast_address): the network's family
        own == IF n.version = 4
               THEN {str(Address(4, lo)), str(Address(4, hi))}
               ELSE {str(Address(6, lo))}
        \* str(ip.ip_address(int)): the family is inferred from the integer
        inferred == IF n.version = 4
                    THEN (IF n.prefixlen <= Bits4 - 2 /\ num_addresses(n) >= 4
                          THEN {lo + 1, hi - 1} ELSE {})
                    ELSE {last} \cup
                         (IF num_addresses(n) >= 4 THEN {lo + 1, last - 1} ELSE {})
        below == IF lo - 1 >= minv THEN {lo - 1} ELSE {}
        above == IF hi + 1 <= maxv THEN {boundary_hi(n)} ELSE {}
    IN  sorted(own \cup { str(ip_address(x)) : x \in inferred \cup below \cup above })

steps_mut(n, cap) == Max(cap, Max(0, num_addresses(n) - 1))
steps(n, cap) == Min(cap, Max(0, num_addresses(n) - 1))

stride(n, cap) == Max(1, num_addresses(n) \div steps(n, cap))

\* out = list(derive_boundary_addresses(n)); return early when the cap is <= 0
SampleBoundary ==
    /\ sample_pc = "start"
    /\ sample_out' = derive_boundary_addresses(sample_n)
    /\ IF addr_steps_cap <= 0
       THEN /\ sample_ret' = sorted(Range(sample_out'))
            /\ sample_pc' = "done"
       ELSE /\ sample_ret' = sample_ret
            /\ sample_pc' = "walk"
    /\ UNCHANGED <<sample_n, addr_steps_cap, sample_k>>
    /\ UNCHANGED notSample

\* one iteration of "for k in range(steps)"
SampleWalk ==
    /\ sample_pc = "walk"
    /\ steps(sample_n, addr_steps_cap) > 0
    /\ sample_k < steps(sample_n, addr_steps_cap)
    /\ LET total == num_addresses(sample_n)
           base == network_address(sample_n)
           a == base + Min(total - 1, sample_k * stride(sample_n, addr_steps_cap))
       IN  sample_out' = Append(sample_out, str(ip_address(a)))
    /\ sample_k' = sample_k + 1
    /\ UNCHANGED <<sample_n, addr_steps_cap, sample_pc, sample_ret>>
    /\ UNCHANGED notSample

\* return sorted(set(out))
SampleReturn ==
    /\ sample_pc = "walk"
    /\ sample_k >= steps(sample_n, addr_steps_cap)
    /\ sample_ret' = sorted(Range(sample_out))
    /\ sample_pc' = "done"
    /\ UNCHANGED <<sample_n, addr_steps_cap, sample_out, sample_k>>
    /\ UNCHANGED notSample

\* ------------------------------------ stdlib network operations as called
\* n.supernet(): one bit shorter; a /0 network is its own supernet
supernet_unmasked(n) ==
    IF n.prefixlen = 0 THEN n
    ELSE Network(n.version, n.addr, n.prefixlen - 1)

supernet(n) ==
    IF n.prefixlen = 0 THEN n
    ELSE Network(n.version,
                 n.addr - (n.addr % Pow2(max_prefixlen(n) - n.prefixlen + 1)),
                 n.prefixlen - 1)

\* n.subnets(new_prefix=p) raises ValueError
subnets_raises(n, new_prefix) ==
    /\ n.prefixlen # max_prefixlen(n)
    /\ \/ new_prefix < n.prefixlen
       \/ new_prefix > max_prefixlen(n)

\* the children yielded from the top of the block downwards
subnets_descending(n, new_prefix) ==
    IF n.prefixlen = max_prefixlen(n) THEN <<n>>
    ELSE LET step == Pow2(max_prefixlen(n) - new_prefix)
             count == Pow2(new_prefix - n.prefixlen)
         IN  [i \in 1..count |-> Network(n.version, n.addr + (count - i) * step, new_prefix)]

\* n.subnets(new_prefix=p), in the order the generator yields
subnets(n, new_prefix) ==
    IF n.prefixlen = max_prefixlen(n) THEN <<n>>
    ELSE LET step == Pow2(max_prefixlen(n) - new_prefix)
         IN  [i \in 1..Pow2(new_prefix - n.prefixlen) |->
                 Network(n.version, n.addr + (i - 1) * step, new_prefix)]

\* a.subnet_of(b)
subnet_of(a, b) ==
    /\ a.version = b.version
    /\ network_address(b) <= network_address(a)
    /\ broadcast_address(b) >= broadcast_address(a)

\* str(network) and n.with_prefixlen: address literal, '/', decimal prefix
net_str(n) == str([version |-> n.version, value |-> n.addr]) \o Slash \o Digits(n.prefixlen, 10)

\* ip_network(literal, strict=True) of a literal written by str(network)
net(s) ==
    LET cut == CHOOSE i \in 1..Len(s) : s[i] = Slash[1]
        a == addr(SubSeq(s, 1, cut - 1))
    IN  Network(a.version, a.value, ParseDigits(SubSeq(s, cut + 1, Len(s)), 10))

\* ------------------------------------------------ scale presets (SCALES)
SCALES ==
    [tiny   |-> [addr_steps |-> 12,  cross_per_net |-> 4,  v4_child25 |-> 4,
                 v4_child26 |-> 8,   v4_child27 |-> 8,   v6_child48 |-> 8,
                 v6_child64 |-> 8],
     small  |-> [addr_steps |-> 24,  cross_per_net |-> 6,  v4_child25 |-> 8,
                 v4_child26 |-> 12,  v4_child27 |-> 16,  v6_child48 |-> 16,
                 v6_child64 |-> 16],
     medium |-> [addr_steps |-> 64,  cross_per_net |-> 10, v4_child25 |-> 8,
                 v4_child26 |-> 16,  v4_child27 |-> 16,  v6_child48 |-> 64,
                 v6_child64 |-> 64],
     large  |-> [addr_steps |-> 256, cross_per_net |-> 24, v4_child25 |-> 32,
                 v4_child26 |-> 64,  v4_child27 |-> 128, v6_child48 |-> 256,
                 v6_child64 |-> 512],
     huge   |-> [addr_steps |-> 512, cross_per_net |-> 64, v4_child25 |-> 128,
                 v4_child26 |-> 256, v4_child27 |-> 512, v6_child48 |-> 1024,
                 v6_child64 |-> 2048]]

ScaleNames == DOMAIN SCALES

take(iterable, k) == SubSeq(iterable, 1, Min(Max(k, 0), Len(iterable)))

\* ----------------------------- net-containment builders (gen_containment.py)
sibling_of(n) ==
    LET parent == supernet(n)
        subs == subnets(parent, n.prefixlen)
    IN  IF Len(subs) < 2 THEN None
        ELSE IF subs[1] = n THEN subs[2] ELSE subs[1]

bounded_child_mut(n, new_prefix) ==
    IF new_prefix = n.prefixlen THEN None
    ELSE subnets(n, new_prefix)[1]

bounded_child(n, new_prefix) ==
    IF new_prefix <= n.prefixlen THEN None
    ELSE IF new_prefix > max_prefixlen(n) THEN None
    ELSE IF subnets_raises(n, new_prefix) THEN None
    ELSE subnets(n, new_prefix)[1]

Case(inner, outer, expect) ==
    [inner |-> net_str(inner), outer |-> net_str(outer), expect |-> expect]

\* step 4 of expand_false_pairs_for_outer: up to two more parent levels;
\* st = [out, remaining]
RECURSIVE false_ladder(_, _, _, _)
false_ladder(outer, up, stepno, st) ==
    IF up # None /\ st.remaining > 0 /\ stepno < 2
    THEN LET up2 == supernet(up)
         IN  false_ladder(outer, up2, stepno + 1,
                 [out |-> Append(st.out, Case(up2, outer, FALSE)),
                  remaining |-> st.remaining - 1])
    ELSE st

\* step 5 of expand_false_pairs_for_outer: deeper children of the sibling
RECURSIVE false_deeper(_, _, _, _)
false_deeper(outer, sib, depth, st) ==
    IF st.remaining > 0 /\ depth <= 4 /\ (outer.prefixlen + depth) <= max_prefixlen(outer)
    THEN LET sib_deeper == bounded_child(sib, outer.prefixlen + depth)
         IN  false_deeper(outer, sib, depth + 1,
                 IF sib_deeper # None
                 THEN [out |-> Append(st.out, Case(sib_deeper, outer, FALSE)),
                       remaining |-> st.remaining - 1]
                 ELSE st)
    ELSE st

\* the builder with the parent case emitted whatever the budget
expand_false_pairs_parent_always(outer, budget) ==
    LET parent == supernet(outer)
        s0 == [out |-> <<>>, remaining |-> budget]
        s1 == IF TRUE
              THEN [out |-> Append(s0.out, Case(parent, outer, FALSE)),
                    remaining |-> s0.remaining - 1]
              ELSE s0
        sib == sibling_of(outer)
        s2 == IF sib # None /\ s1.remaining > 0
              THEN [out |-> Append(s1.out, Case(sib, outer, FALSE)),
                    remaining |-> s1.remaining - 1]
              ELSE s1
        sib_child == IF sib # None /\ s2.remaining > 0
                     THEN bounded_child(sib, outer.prefixlen + 1) ELSE None
        s3 == IF sib_child # None
              THEN [out |-> Append(s2.out, Case(sib_child, outer, FALSE)),
                    remaining |-> s2.remaining - 1]
              ELSE s2
        s4 == false_ladder(outer, parent, 0, s3)
        s5 == IF sib # None /\ s4.remaining > 0
              THEN false_deeper(outer, sib, 2, s4)
              ELSE s4
    IN  s5.out

expand_false_pairs_for_outer(outer, budget) ==
    LET parent == supernet(outer)
        s0 == [out |-> <<>>, remaining |-> budget]
        s1 == IF s0.remaining > 0
              THEN [out |-> Append(s0.out, Case(parent, outer, FALSE)),
                    remaining |-> s0.remaining - 1]
              ELSE s0
        sib == sibling_of(outer)
        s2 == IF sib # None /\ s1.remaining > 0
              THEN [out |-> Append(s1.out, Case(sib, outer, FALSE)),
                    remaining |-> s1.remaining - 1]
              ELSE s1
        sib_child == IF sib # None /\ s2.remaining > 0
                     THEN bounded_child(sib, outer.prefixlen + 1) ELSE None
        s3 == IF sib_child # None
              THEN [out |-> Append(s2.out, Case(sib_child, outer, FALSE)),
                    remaining |-> s2.remaining - 1]
              ELSE s2
        s4 == false_ladder(outer, parent, 0, s3)
        s5 == IF sib # None /\ s4.remaining > 0
              THEN false_deeper(outer, sib, 2, s4)
              ELSE s4
    IN  s5.out

\* the number in a key "v4_childNN", scaled with the family's width
child_key_number(num) == (num * Bits4) \div 32

\* the V6 target prefixes 48 and 64, scaled with the family's width
v6_target(num) == (num * Bits6) \div 128

child_cap(count, hard) == Min(count, hard)

\* children of outer at target_prefix, at most min(count, hard) of them
children_cases(outer, target_prefix, count, hard) ==
    IF subnets_raises(outer, target_prefix) THEN <<>>
    ELSE LET children == take(subnets(outer, target_prefix), child_cap(count, hard))
         IN  [i \in 1..Len(children) |-> Case(children[i], outer, TRUE)]

v4_target_prefix(outer, num) ==
    Min(Bits4, Max(0, outer.prefixlen + child_key_number(num)))

v4_children(outer, params, num, count) ==
    LET target_prefix == v4_target_prefix(outer, num)
    IN  IF target_prefix <= Bits4 /\ target_prefix > outer.prefixlen /\ count > 0
        THEN children_cases(outer, target_prefix, count, 8)
        ELSE <<>>

v6_children(outer, params, target, count) ==
    IF outer.prefixlen < target /\ count > 0
    THEN children_cases(outer, target, count, 32)
    ELSE <<>>

\* descendant ladder: the first child, its first child, ... (at most 3)
RECURSIVE true_ladder(_, _, _)
true_ladder(outer, cursor, stepno) ==
    IF stepno < 3 /\ cursor.prefixlen < max_prefixlen(outer)
    THEN LET nxt == subnets(cursor, cursor.prefixlen + 1)[1]
         IN  <<Case(nxt, outer, TRUE)>> \o true_ladder(outer, nxt, stepno + 1)
    ELSE <<>>

true_net_containment_pairs_for_outer(outer, params) ==
    <<Case(outer, outer, TRUE)>>
    \o (IF outer.version = 4
        THEN v4_children(outer, params, 25, params.v4_child25)
             \o v4_children(outer, params, 26, params.v4_child26)
             \o v4_children(outer, params, 27, params.v4_child27)
        ELSE v6_children(outer, params, v6_target(48), params.v6_child48)
             \o v6_children(outer, params, v6_target(64), params.v6_child64))
    \o true_ladder(outer, outer, 0)

\* ------------------------------------ subnet_cases (extract_python_tests.py)
\* [str(x) for x in n.subnets(...)]
subs_str(n, new_prefix) ==
    LET subs == subnets(n, new_prefix)
    IN  [i \in 1..Len(subs) |-> net_str(subs[i])]

\* a success case: key is "prefixlen_diff" or "new_prefix", arg its value
SubnetCase(n, key, arg, new_prefix) ==
    [parent |-> net_str(n), key |-> key, arg |-> arg,
     raised |-> subnets_raises(n, new_prefix),
     expect |-> IF subnets_raises(n, new_prefix) THEN <<>> ELSE subs_str(n, new_prefix)]

SubnetError(n, new_prefix) ==
    [parent |-> net_str(n), new_prefix |-> new_prefix, expect_error |-> "ValueError"]


subnet_cases_of(s) ==
    LET n == net(s)
        fam_max == IF n.version = 4 THEN Bits4 ELSE Bits6
        p == n.prefixlen
        by_step(step) == IF p + step <= fam_max
                         THEN <<SubnetCase(n, "prefixlen_diff", step, p + step)>>
                         ELSE <<>>
        by_prefix == IF p + 4 <= fam_max
                     THEN <<SubnetCase(n, "new_prefix", p + 4, p + 4)>>
                     ELSE <<>>
        shorter == IF p - 1 >= 0 THEN <<SubnetError(n, p - 1)>> ELSE <<>>
    IN  [cases |-> by_step(1) \o by_step(2) \o by_prefix,
         errors |-> Append(shorter, SubnetError(n, fam_max + 1))]

RECURSIVE subnet_cases(_)
subnet_cases(nets) ==
    IF Len(nets) = 0 THEN [cases |-> <<>>, errors |-> <<>>]
    ELSE LET head == subnet_cases_of(nets[1])
             rest == subnet_cases(Tail(nets))
         IN  [cases |-> head.cases \o rest.cases, errors |-> head.errors \o rest.errors]

\* ------------------------------------------ the per-network builders, applied
TruePairs ==
    /\ c_op = "init"
    /\ \E sc \in ScaleNames :
          /\ c_scale' = sc
          /\ c_cases' = true_net_containment_pairs_for_outer(c_outer, SCALES[sc])
    /\ c_op' = "true_pairs"
    /\ UNCHANGED <<c_outer, c_budget, c_new_prefix, c_errors, c_child>>
    /\ UNCHANGED notContain

FalsePairs ==
    /\ c_op = "init"
    /\ \E b \in (-1)..MaxBudget :
          /\ c_budget' = b
          /\ c_cases' = expand_false_pairs_for_outer(c_outer, b)
    /\ c_op' = "false_pairs"
    /\ UNCHANGED <<c_outer, c_scale, c_new_prefix, c_errors, c_child>>
    /\ UNCHANGED notContain

BoundedChild ==
    /\ c_op = "init"
    /\ \E np \in (-1)..(max_prefixlen(c_outer) + 2) :
          /\ c_new_prefix' = np
          /\ c_child' = bounded_child(c_outer, np)
    /\ c_op' = "bounded_child"
    /\ UNCHANGED <<c_outer, c_scale, c_budget, c_cases, c_errors>>
    /\ UNCHANGED notContain

SubnetCases ==
    /\ c_op = "init"
    /\ LET r == subnet_cases(<<net_str(c_outer)>>)
       IN  /\ c_cases' = r.cases
           /\ c_errors' = r.errors
    /\ c_op' = "subnet_cases"
    /\ UNCHANGED <<c_outer, c_scale, c_budget, c_new_prefix, c_child>>
    /\ UNCHANGED notContain

\* ----------------------------------------- merge cases (gen_merge_cases.py)
\* order of networks: by network address, then by netmask
net_lt(a, b) ==
    \/ a.addr < b.addr
    \/ a.addr = b.addr /\ a.prefixlen < b.prefixlen

\* list(ipaddress.collapse_addresses([a, b])) for two networks of one family:
\* merge the two when they are the two halves of one supernet, then drop a
\* network that the one sorted before it subsumes
collapse_pair(a, b) ==
    LET merged == IF supernet(a) # supernet(b) THEN {a, b}
                  ELSE IF b # a THEN {supernet(a)}
                  ELSE {b}
        lo == CHOOSE x \in merged : \A y \in merged \ {x} : net_lt(x, y)
    IN  IF Cardinality(merged) = 1 THEN <<lo>>
        ELSE LET hi == CHOOSE y \in merged : y # lo
             IN  IF broadcast_address(lo) >= broadcast_address(hi)
                 THEN <<lo>> ELSE <<lo, hi>>

NoReason == "None"

Failed(reason) == [can |-> FALSE, sup |-> None, reason |-> reason]

mergeable_and_supernet_trusting(a, b) ==
    IF a.version # b.version THEN Failed("different families")
    ELSE IF a.prefixlen # b.prefixlen THEN Failed("different prefix lengths")
    ELSE IF a.prefixlen = 0 THEN Failed("cannot supernet /0")
    ELSE LET collapsed == collapse_pair(a, b)
         IN  IF Len(collapsed) # 1
             THEN Failed("does not collapse to single supernet")
             ELSE [can |-> TRUE, sup |-> collapsed[1], reason |-> NoReason]

mergeable_and_supernet_swapped(a, b) ==
    IF a.prefixlen # b.prefixlen THEN Failed("different prefix lengths")
    ELSE IF a.version # b.version THEN Failed("different families")
    ELSE IF a.prefixlen = 0 THEN Failed("cannot supernet /0")
    ELSE LET collapsed == collapse_pair(a, b)
         IN  IF Len(collapsed) # 1
             THEN Failed("does not collapse to single supernet")
             ELSE IF collapsed[1].prefixlen # a.prefixlen - 1
             THEN Failed("collapsed supernet is not one bit shorter")
             ELSE [can |-> TRUE, sup |-> collapsed[1], reason |-> NoReason]

mergeable_and_supernet(a, b) ==
    IF a.version # b.version THEN Failed("different families")
    ELSE IF a.prefixlen # b.prefixlen THEN Failed("different prefix lengths")
    ELSE IF a.prefixlen = 0 THEN Failed("cannot supernet /0")
    ELSE LET collapsed == collapse_pair(a, b)
             sup == collapsed[1]
             parts == subnets(sup, a.prefixlen)
             expect_set == { net_str(parts[i]) : i \in 1..Len(parts) }
             got_set == { net_str(a), net_str(b) }
         IN  IF Len(collapsed) # 1
             THEN Failed("does not collapse to single supernet")
             ELSE IF sup.prefixlen # a.prefixlen - 1
             THEN Failed("collapsed supernet is not one bit shorter")
             ELSE IF Len(parts) # 2
             THEN Failed("unexpected subdivision count")
             ELSE IF expect_set # got_set
             THEN Failed("collapsed supernet does not split back into the two inputs")
             ELSE [can |-> TRUE, sup |-> sup, reason |-> NoReason]

\* JSON null where a literal is expected
Null == <<>>
NoNote == ""

make_case(a, b, note) ==
    LET r == mergeable_and_supernet(a, b)
    IN  [a_cidr |-> net_str(a),
         b_cidr |-> net_str(b),
         can_merge |-> r.can,
         expect |-> IF r.can /\ r.sup # None THEN net_str(r.sup) ELSE Null,
         note |-> IF note # NoNote THEN note
                  ELSE IF ~r.can /\ r.reason # NoReason THEN r.reason
                  ELSE NoNote]

\* the region the random networks are drawn from (10.0.0.0/16, 2001:db8::/32):
\* a quarter of the family's space that ends below its top, the IPv6 one
\* above every IPv4 integer
random_base(v) == Network(v, IF v = 4 THEN Pow2(Bits4 - 2) ELSE Pow2(Bits6 - 1), 2)

\* random.choice([31, ..., 24]) and random.choice([66, 65, 64]): the child
\* prefixes, the last 8 below W for V4 and the 3 from W/2 up for V6, always
\* more than one bit deeper than the region
child_prefix_choices(v) ==
    IF v = 4
    THEN { q \in (Bits4 - 8)..(Bits4 - 1) : q - 1 > random_base(4).prefixlen }
    ELSE { q \in (Bits6 \div 2)..(Bits6 \div 2 + 2) : q - 1 > random_base(6).prefixlen }

\* random_ipv4_network / random_ipv6_network: the networks the draw
\* randrange(first, last + 1 - size, size) can give
random_network_choices(v, prefix) ==
    LET base == random_base(v)
        size == Pow2(BITS(v) - prefix)
        first == network_address(base)
        stop == broadcast_address(base) + 1 - size
    IN  { Network(v, start, prefix) :
            start \in { x \in first..(stop - 1) : (x - first) % size = 0 } }

\* random_mergeable_pair: [parent, a, b] for every outcome of the draws
random_mergeable_pair(v) ==
    UNION { { [parent |-> parent,
               a |-> subnets(parent, child_prefix)[1],
               b |-> subnets(parent, child_prefix)[2]]
              : parent \in random_network_choices(v, child_prefix - 1) }
            : child_prefix \in child_prefix_choices(v) }

\* no case made yet
NoCase == [a_cidr |-> Null, b_cidr |-> Null, can_merge |-> FALSE,
           expect |-> Null, note |-> NoNote]

MakeCase ==
    /\ m_op = "init"
    /\ m_res' = mergeable_and_supernet(m_a, m_b)
    /\ \E note \in {NoNote, "disjoint"} : m_case' = make_case(m_a, m_b, note)
    /\ m_op' = "checked"
    /\ UNCHANGED <<m_a, m_b, m_parent>>
    /\ UNCHANGED notMerge

RandomMergeable ==
    /\ m_op = "random"
    /\ \E version \in {4, 6} :
         \E pair \in random_mergeable_pair(version) :
            /\ m_parent' = pair.parent
            /\ m_a' = pair.a
            /\ m_b' = pair.b
            /\ m_res' = mergeable_and_supernet(pair.a, pair.b)
            /\ m_case' = make_case(pair.a, pair.b, "random mergeable siblings")
    /\ m_op' = "random_mergeable"
    /\ UNCHANGED notMerge

\* ------------------------------------------------ seeding of the generators
\* Python's process-wide generator, as a deterministic state machine:
\* random.seed(x) fixes the state, every draw returns a value that depends on
\* the state only and moves to the next state.
SEED == 20250911

random_seed(x) == x % RngMod
rng_next(state) == (5 * state + 3) % RngMod

\* the values of `count` successive draws from `state`
RECURSIVE draws(_, _)
draws(state, count) ==
    IF count = 0 THEN <<>> ELSE <<state>> \o draws(rng_next(state), count - 1)

RECURSIVE rng_after(_, _)
rng_after(state, count) ==
    IF count = 0 THEN state ELSE rng_after(rng_next(state), count - 1)

\* --seed values given on the command line
SeedArgs == {42, 1337, 7}

Run(gen, seed, out) == [gen |-> gen, seed |-> seed, out |-> out]

\* "import gen_overlongs": the module body runs random.seed(SEED), once
ImportOverlongs ==
    /\ ~overlongs_imported
    /\ overlongs_imported' = TRUE
    /\ rng' = random_seed(SEED)
    /\ UNCHANGED runs
    /\ UNCHANGED notSeed

\* gen_overlongs.build(): draws from the generator as it stands
BuildOverlongs ==
    /\ overlongs_imported
    /\ Cardinality(runs) < MaxRuns
    /\ runs' = runs \cup {Run("overlongs", SEED, draws(rng, DrawCount))}
    /\ rng' = rng_after(rng, DrawCount)
    /\ UNCHANGED overlongs_imported
    /\ UNCHANGED notSeed

\* gen_properties.build_suite(rng_seed=seed): seeds, then draws
BuildSuite ==
    /\ Cardinality(runs) < MaxRuns
    /\ \E seed \in SeedArgs :
          /\ runs' = runs \cup {Run("properties", seed, draws(random_seed(seed), DrawCount))}
          /\ rng' = rng_after(random_seed(seed), DrawCount)
    /\ UNCHANGED overlongs_imported
    /\ UNCHANGED notSeed

\* gen_merge_cases.main(): random.seed(args.seed), edge_cases(), random_cases()
MergeMain ==
    /\ Cardinality(runs) < MaxRuns
    /\ \E seed \in SeedArgs :
          /\ runs' = runs \cup {Run("merge", seed, draws(random_seed(seed), DrawCount))}
          /\ rng' = rng_after(random_seed(seed), DrawCount)
    /\ UNCHANGED overlongs_imported
    /\ UNCHANGED notSeed

\* ------------------------------------- list assembly (gen_containment.py)
\* The canonical corpus, placed in the scaled address space the way the source
\* places it in the real one: a low special block, private and documentation
\* blocks with their split grids, a two-address and a one-address network, the
\* last address as a network. The V6 corpus lies above the V4 range, as the
\* source's does.
Q4 == Pow2(Bits4 - 2)
Q6 == Pow2(Bits6 - 2)

ipv4_canonical_networks(scale) ==
    << net_str(Network(4, 3 * Q4, 2)),                        \* documentation
       net_str(Network(4, Q4, 2)),                            \* private
       net_str(Network(4, 2 * Q4, 1)),                        \* multicast and up
       net_str(Network(4, 0, 2)),                             \* special
       net_str(Network(4, Pow2(Bits4) - 1, Bits4)),           \* last address
       net_str(Network(4, 3 * Q4, 3)),                        \* split grid
       net_str(Network(4, 3 * Q4 + Pow2(Bits4 - 3), 3)),
       net_str(Network(4, Q4, Bits4 - 1)),                    \* two addresses
       net_str(Network(4, Q4 + 3, Bits4)) >>                  \* one address
    \o (IF scale \in {"large", "huge"}
        THEN << net_str(Network(4, Q4, 3)),
                net_str(Network(4, Q4 + Pow2(Bits4 - 3), 3)) >>
        ELSE <<>>)

ipv6_canonical_networks(scale) ==
    << net_str(Network(6, 3 * Q6, 2)),                        \* documentation
       net_str(Network(6, 3 * Q6 + Pow2(Bits6 - 3), 3)),      \* doc subspace
       net_str(Network(6, Pow2(Bits6) - Pow2(Bits6 - 4), 4)), \* multicast
       net_str(Network(6, 3 * Q6, Bits6 - 2)),                \* edge subnets
       net_str(Network(6, 3 * Q6, Bits6 - 1)),
       net_str(Network(6, 3 * Q6, Bits6)) >>
    \o (IF scale \in {"large", "huge"}
        THEN << net_str(Network(6, 3 * Q6 + 4, Bits6 - 2)) >>
        ELSE <<>>)

more_ipv4_addresses ==
    << str(Address(4, 3 * Q4)), str(Address(4, 3 * Q4 + 1)),
       str(Address(4, 4 * Q4 - 2)), str(Address(4, 4 * Q4 - 1)),
       str(Address(4, Q4 + 1)), str(Address(4, 0)) >>

more_ipv6_addresses ==
    << str(Address(6, 3 * Q6)), str(Address(6, 3 * Q6 + 1)),
       str(Address(6, 1)), str(Address(6, 0)),
       str(Address(6, Pow2(Bits6) - Pow2(Bits6 - 4) + 1)) >>

\* sample_addresses_for_network as a function of its arguments
sample_addresses_for_network(n, cap) ==
    LET out == Range(derive_boundary_addresses(n))
        total == num_addresses(n)
        base == network_address(n)
        walk == IF steps(n, cap) > 0
                THEN { str(ip_address(base + Min(total - 1, k * stride(n, cap)))) :
                          k \in 0..(steps(n, cap) - 1) }
                ELSE {}
    IN  IF cap <= 0 THEN sorted(out) ELSE sorted(out \cup walk)

canonical_nets(version, scale) ==
    LET lits == IF version = 4 THEN ipv4_canonical_networks(scale)
                ELSE ipv6_canonical_networks(scale)
    IN  [i \in 1..Len(lits) |-> net(lits[i])]

more_addresses(version) ==
    IF version = 4 THEN more_ipv4_addresses ELSE more_ipv6_addresses

MemberCase(a, n) ==
    [address |-> str(a), network |-> net_str(n), expect |-> InNet(a, n)]

\* the iterations of one loop: kind of loop, family, position in its list
Iterations(kind, version, count) ==
    [i \in 1..count |-> [kind |-> kind, version |-> version, pos |-> i]]

\* the loops of assemble_addr_membership_cases, in program order
addr_membership_loops(scale) ==
    Iterations("sample", 4, Len(canonical_nets(4, scale)))
    \o Iterations("more", 4, Len(more_ipv4_addresses))
    \o Iterations("sample", 6, Len(canonical_nets(6, scale)))
    \o Iterations("more", 6, Len(more_ipv6_addresses))

\* the loops of assemble_net_containment_cases, in program order
net_containment_loops(scale) ==
    Iterations("true", 4, Len(canonical_nets(4, scale)))
    \o Iterations("true", 6, Len(canonical_nets(6, scale)))
    \o Iterations("false", 4, Len(canonical_nets(4, scale)))
    \o Iterations("false", 6, Len(canonical_nets(6, scale)))

loops(list, scale) ==
    IF list = "addr_membership" THEN addr_membership_loops(scale)
    ELSE net_containment_loops(scale)

\* for a in sample_addresses_for_network(n, addr_steps): cases.append(...)
AddrSample ==
    /\ a_idx >= 1
    /\ a_idx <= Len(loops(a_list, a_scale))
    /\ LET it == loops(a_list, a_scale)[a_idx]
           n == canonical_nets(it.version, a_scale)[it.pos]
           smp == sample_addresses_for_network(n, SCALES[a_scale].addr_steps)
       IN  /\ it.kind = "sample"
           /\ a_cases' = a_cases \o [i \in 1..Len(smp) |-> MemberCase(addr(smp[i]), n)]
    /\ a_idx' = a_idx + 1
    /\ UNCHANGED <<a_scale, a_list>>
    /\ UNCHANGED notAssemble

\* for n in nets: cases.append(...) for one of the listed addresses
AddrMore ==
    /\ a_idx >= 1
    /\ a_idx <= Len(loops(a_list, a_scale))
    /\ LET it == loops(a_list, a_scale)[a_idx]
           nets == canonical_nets(it.version, a_scale)
           a == addr(more_addresses(it.version)[it.pos])
       IN  /\ it.kind = "more"
           /\ a_cases' = a_cases \o [i \in 1..Len(nets) |-> MemberCase(a, nets[i])]
    /\ a_idx' = a_idx + 1
    /\ UNCHANGED <<a_scale, a_list>>
    /\ UNCHANGED notAssemble

\* cases.extend(true_net_containment_pairs_for_outer(n, params))
NetTrue ==
    /\ a_idx >= 1
    /\ a_idx <= Len(loops(a_list, a_scale))
    /\ LET it == loops(a_list, a_scale)[a_idx]
           n == canonical_nets(it.version, a_scale)[it.pos]
       IN  /\ it.kind = "true"
           /\ a_cases' = a_cases \o true_net_containment_pairs_for_outer(n, SCALES[a_scale])
    /\ a_idx' = a_idx + 1
    /\ UNCHANGED <<a_scale, a_list>>
    /\ UNCHANGED notAssemble

\* cases.extend(expand_false_pairs_for_outer(outer, cross_budget))
NetFalse ==
    /\ a_idx >= 1
    /\ a_idx <= Len(loops(a_list, a_scale))
    /\ LET it == loops(a_list, a_scale)[a_idx]
           outer == canonical_nets(it.version, a_scale)[it.pos]
       IN  /\ it.kind = "false"
           /\ a_cases' = a_cases \o
                 expand_false_pairs_for_outer(outer, SCALES[a_scale].cross_per_net)
    /\ a_idx' = a_idx + 1
    /\ UNCHANGED <<a_scale, a_list>>
    /\ UNCHANGED notAssemble

\* ------------------------------- pair building (extract_python_tests.py)
\* key=lambda x: (x.version, int(x.network_address), x.prefixlen), compared
\* as Python compares tuples
key_lt(a, b) ==
    \/ a.version < b.version
    \/ a.version = b.version /\ a.addr < b.addr
    \/ a.version = b.version /\ a.addr = b.addr /\ a.prefixlen < b.prefixlen

\* min(a, b, key=...) and max(a, b, key=...): the first argument wins a tie
min_by_key(a, b) == IF key_lt(b, a) THEN b ELSE a
max_by_key(a, b) == IF key_lt(a, b) THEN b ELSE a

pair_key(a, b) == <<net_str(min_by_key(a, b)), net_str(max_by_key(a, b))>>

Pair(a, b) == [a |-> net_str(a), b |-> net_str(b)]

\* add_pair without the "key not in seen" test
add_pair_unchecked(st, a, b) ==
    [seen |-> st.seen \cup {pair_key(a, b)}, pairs |-> Append(st.pairs, Pair(a, b))]

\* add_pair on st = [seen, pairs]
add_pair(st, a, b) ==
    IF pair_key(a, b) \notin st.seen
    THEN [seen |-> st.seen \cup {pair_key(a, b)}, pairs |-> Append(st.pairs, Pair(a, b))]
    ELSE st

_first_child(n) == subnets(n, n.prefixlen + 1)[1]

\* one iteration of "for n in nets": parent, first child, the parent's two kids
augment_net(st, n) ==
    LET s1 == IF n.prefixlen > 0 THEN add_pair(st, n, supernet(n)) ELSE st
        s2 == IF n.prefixlen + 1 <= BITS(n.version)
              THEN add_pair(s1, _first_child(n), n) ELSE s1
        kids == subnets(supernet(n), n.prefixlen)
        s3 == IF n.prefixlen > 0 /\ Len(kids) >= 2
              THEN add_pair(s2, kids[1], kids[2]) ELSE s2
    IN  s3

RECURSIVE augment_from(_, _, _)
augment_from(st, valid_networks, i) ==
    IF i > Len(valid_networks) THEN st
    ELSE augment_from(augment_net(st, net(valid_networks[i])), valid_networks, i + 1)

build_augmented_pairs(valid_networks) ==
    augment_from([seen |-> {}, pairs |-> <<>>], valid_networks, 1).pairs

\* a.overlaps(b), as ipaddress evaluates it
overlaps_loose(a, b) == a.version = b.version
overlaps(a, b) ==
    \/ InNet(Address(a.version, network_address(a)), b)
    \/ InNet(Address(a.version, broadcast_address(a)), b)
    \/ InNet(Address(b.version, network_address(b)), a)
    \/ InNet(Address(b.version, broadcast_address(b)), a)

supernet_of(a, b) == subnet_of(b, a)

truth_row(pair) ==
    LET a == net(pair.a)
        b == net(pair.b)
    IN  [a |-> net_str(a), b |-> net_str(b),
         overlaps |-> overlaps(a, b),
         a_subnet_of_b |-> subnet_of(a, b),
         b_subnet_of_a |-> subnet_of(b, a),
         a_supernet_of_b |-> supernet_of(a, b),
         b_supernet_of_a |-> supernet_of(b, a)]

truth_table(pairs) == [i \in 1..Len(pairs) |-> truth_row(pairs[i])]

\* the networks the input literals are drawn from: the widest V4 networks, the
\* narrowest V4 networks at the bottom of the space, the widest V6 networks
ValidNetworks ==
    { net_str(n) : n \in { m \in NetworksOf(4) : m.prefixlen <= 3 \/ broadcast_address(m) < 4 }
                       \cup { m \in NetworksOf(6) : m.prefixlen <= 1 } }

\* one iteration of the loop of build_augmented_pairs
AugmentNet ==
    /\ x_pc = "pairs"
    /\ x_idx <= Len(x_nets)
    /\ LET st == augment_net([seen |-> x_seen, pairs |-> x_pairs], net(x_nets[x_idx]))
       IN  /\ x_seen' = st.seen
           /\ x_pairs' = st.pairs
    /\ x_idx' = x_idx + 1
    /\ UNCHANGED <<x_nets, x_tt, x_pc>>
    /\ UNCHANGED notPairs

\* tt = truth_table(pairs)
TruthTable ==
    /\ x_pc = "pairs"
    /\ x_idx > Len(x_nets)
    /\ x_tt' = truth_table(x_pairs)
    /\ x_pc' = "done"
    /\ UNCHANGED <<x_nets, x_idx, x_seen, x_pairs>>
    /\ UNCHANGED notPairs

\* ------------------------------ set operations (extract_python_tests.py)
RECURSIVE bit_length(_)
bit_length(x) == IF x <= 0 THEN 0 ELSE 1 + bit_length(x \div 2)

RECURSIVE trailing_zero_bits(_)
trailing_zero_bits(x) == IF x % 2 = 1 THEN 0 ELSE 1 + trailing_zero_bits(x \div 2)

\* ipaddress._count_righthand_zero_bits(number, bits)
_count_righthand_zero_bits(number, bits) ==
    IF number = 0 THEN bits ELSE Min(bits, trailing_zero_bits(number))

\* summarize_address_range(first, last) raises: families differ, or last < first
summarize_raises(first, last) ==
    \/ first.version # last.version
    \/ first.value > last.value

\* the block size taken from the alignment of the start alone
block_bits_aligned_only(v, first_int, last_int) ==
    _count_righthand_zero_bits(first_int, BITS(v))

\* nbits: the largest aligned block at first_int that fits the range
block_bits(v, first_int, last_int) ==
    Min(_count_righthand_zero_bits(first_int, BITS(v)),
        bit_length(last_int - first_int + 1) - 1)

\* the loop of summarize_address_range
RECURSIVE summarize_from(_, _, _)
summarize_from(v, first_int, last_int) ==
    IF first_int > last_int THEN <<>>
    ELSE LET nbits == block_bits(v, first_int, last_int)
             block == Network(v, first_int, BITS(v) - nbits)
             nxt == first_int + Pow2(nbits)
         IN  IF nxt - 1 = Pow2(BITS(v)) - 1 THEN <<block>>
             ELSE <<block>> \o summarize_from(v, nxt, last_int)

summarize_address_range(first, last) ==
    summarize_from(first.version, first.value, last.value)

strs(networks) == [i \in 1..Len(networks) |-> net_str(networks[i])]

first_address(n) == Address(n.version, network_address(n))
last_address(n) == Address(n.version, broadcast_address(n))

\* the 'covering' list of the union entry
covering_of(a, b) ==
    LET start == Address(a.version, Min(network_address(a), network_address(b)))
        end == Address(a.version, Max(broadcast_address(a), broadcast_address(b)))
    IN  strs(summarize_address_range(start, end))

\* the intersection taken over the span of the two networks
intersection_span(a, b) ==
    IF overlaps(a, b) THEN covering_of(a, b) ELSE <<>>

\* the 'expect' list of the intersection entry
intersection_of(a, b) ==
    IF overlaps(a, b)
    THEN LET start_i == Address(a.version, Max(network_address(a), network_address(b)))
             end_i == Address(a.version, Min(broadcast_address(a), broadcast_address(b)))
         IN  strs(summarize_address_range(start_i, end_i))
    ELSE <<>>

\* the difference entry: [raised, expect]; the remainders' outer ends are
\* written with ip_address(int), whose family follows the integer
difference_of(a, b) ==
    IF ~overlaps(a, b) THEN [raised |-> FALSE, expect |-> <<net_str(a)>>]
    ELSE LET has_left == network_address(b) > network_address(a)
             left_last == ip_address(network_address(b) - 1)
             has_right == broadcast_address(b) < broadcast_address(a)
             right_first == ip_address(broadcast_address(b) + 1)
         IN  IF has_left /\ summarize_raises(first_address(a), left_last)
             THEN [raised |-> TRUE, expect |-> <<>>]
             ELSE IF has_right /\ summarize_raises(right_first, last_address(a))
             THEN [raised |-> TRUE, expect |-> <<>>]
             ELSE [raised |-> FALSE,
                   expect |->
                      (IF has_left
                       THEN strs(summarize_address_range(first_address(a), left_last))
                       ELSE <<>>)
                      \o (IF has_right
                          THEN strs(summarize_address_range(right_first, last_address(a)))
                          ELSE <<>>)]

\* the networks the two input literals are drawn from: every V4 network and
\* the widest V6 networks
SetopsNetworks == NetworksOf(4) \cup { m \in NetworksOf(6) : m.prefixlen <= 3 }

\* nets_objs[:6]
setops_nets(nets) == [i \in 1..Min(6, Len(nets)) |-> net(nets[i])]

\* one iteration of "for a in nets_objs[:6]: for b in nets_objs[:6]"
SetOpsPair ==
    /\ s_pc = "loop"
    /\ s_i <= Len(setops_nets(s_nets))
    /\ LET a == setops_nets(s_nets)[s_i]
           b == setops_nets(s_nets)[s_j]
           diff == difference_of(a, b)
           skip == a.version # b.version \/ a = b
       IN  /\ s_union' =
                 IF skip THEN s_union
                 ELSE Append(s_union, [inputs |-> <<net_str(a), net_str(b)>>,
                                       collapse |-> strs(collapse_pair(a, b)),
                                       covering |-> covering_of(a, b)])
           /\ s_intersection' =
                 IF skip THEN s_intersection
                 ELSE Append(s_intersection,
                             [a |-> net_str(a), b |-> net_str(b),
                              expect |-> intersection_of(a, b)])
           /\ s_difference' =
                 IF skip \/ diff.raised THEN s_difference
                 ELSE Append(s_difference,
                             [a |-> net_str(a), b |-> net_str(b), expect |-> diff.expect])
           /\ IF ~skip /\ diff.raised
              THEN s_pc' = "raised" /\ UNCHANGED <<s_i, s_j>>
              ELSE /\ s_pc' = s_pc
                   /\ s_j' = IF s_j < Len(setops_nets(s_nets)) THEN s_j + 1 ELSE 1
                   /\ s_i' = IF s_j < Len(setops_nets(s_nets)) THEN s_i ELSE s_i + 1
    /\ UNCHANGED s_nets
    /\ UNCHANGED notSetops

\* return out
SetOpsReturn ==
    /\ s_pc = "loop"
    /\ s_i > Len(setops_nets(s_nets))
    /\ s_pc' = "done"
    /\ UNCHANGED <<s_nets, s_i, s_j, s_union, s_intersection, s_difference>>
    /\ UNCHANGED notSetops

\* ------------------------------------ property suite (gen_properties.py)
\* A hex digit and a byte, scaled with the address widths: one bit per hex
\* digit (4 in the source), two hex digits per byte.
HexDigitBits == 1
ByteBits == 2 * HexDigitBits
HexRadix == Pow2(HexDigitBits)

\* every prefix of the source's lists, scaled to the family's width
ipv4_prefixes ==
    LET src == <<0, 8, 16, 24, 25, 26, 27, 28, 29, 30, 31, 32>>
    IN  [i \in 1..Len(src) |-> (src[i] * Bits4) \div 32]

ipv6_prefixes ==
    LET src == <<0, 32, 48, 56, 60, 64, 96, 112, 126, 127, 128>>
    IN  [i \in 1..Len(src) |-> (src[i] * Bits6) \div 128]

prefixes(version) == IF version = 4 THEN ipv4_prefixes ELSE ipv6_prefixes

\* ip_network((address, prefix), strict=False) that keeps the host bits
ip_network_unmasked(version, value, prefix) == Network(version, value, prefix)

\* ip_network((address, prefix), strict=False): host bits are masked away
ip_network_loose(version, value, prefix) ==
    Network(version, value - (value % Pow2(BITS(version) - prefix)), prefix)

\* the values random.getrandbits(W) is drawn from
RandomBits(version) ==
    {1, Pow2(BITS(version)) - 2}

\* the documentation addresses "192.0.2.1" and "2001:db8::1"
seed_address(version) == IF version = 4 THEN 3 * Q4 + 1 ELSE 3 * Q6 + 1

seed_nets(version) ==
    [i \in 1..Len(prefixes(version)) |->
        ip_network_loose(version, seed_address(version), prefixes(version)[i])]

count_of(nets, version) == Cardinality({ i \in 1..Len(nets) : nets[i].version = version })

\* list(dict.fromkeys(nets)): the first occurrence of every network, in order
RECURSIVE fromkeys(_)
fromkeys(nets) ==
    IF nets = <<>> THEN <<>>
    ELSE LET front == fromkeys(SubSeq(nets, 1, Len(nets) - 1))
             last == nets[Len(nets)]
         IN  IF last \in Range(front) THEN front ELSE Append(front, last)

broadcast_or_none(n) ==
    IF n.version = 4
    THEN (IF n.prefixlen <= Bits4 - 2 THEN str(last_address(n)) ELSE Null)
    ELSE Null

\* [first, last] assignable; hosts() of a two-address network yields both
first_last_assignable(n) ==
    IF n.prefixlen = max_prefixlen(n)
    THEN <<str(first_address(n)), str(first_address(n))>>
    ELSE IF n.prefixlen = max_prefixlen(n) - 1
    THEN <<str(first_address(n)), str(last_address(n))>>
    ELSE IF n.version = 4
    THEN <<str(Address(4, network_address(n) + 1)),
           str(Address(4, broadcast_address(n) - 1))>>
    ELSE <<str(first_address(n)), str(last_address(n))>>

\* the digits of x in the given radix, padded on the left to `width` digits
RECURSIVE PaddedDigits(_, _, _)
PaddedDigits(x, radix, width) ==
    IF width = 0 THEN <<>>
    ELSE Append(PaddedDigits(x \div radix, radix, width - 1), CharOfDigit(x % radix))

\* int_to_be_hex with one byte more than needed
int_to_be_hex_padded(n) ==
    PaddedDigits(n, HexRadix, 2 * (bit_length(n) \div ByteBits + 1))

\* minimal-length big-endian bytes of n, two hex digits per byte
int_to_be_hex(n) ==
    IF n = 0 THEN <<CharOfDigit(0), CharOfDigit(0)>>
    ELSE LET length == (bit_length(n) + (ByteBits - 1)) \div ByteBits
         IN  PaddedDigits(n, HexRadix, 2 * length)

family_name(n) == IF n.version = 4 THEN "IPv4" ELSE "IPv6"

test_network(n) ==
    [family |-> family_name(n),
     cidr |-> net_str(n),
     address |-> str(first_address(n)),
     prefix |-> n.prefixlen,
     network_address |-> str(first_address(n)),
     last_address |-> str(last_address(n)),
     first_assignable |-> first_last_assignable(n)[1],
     last_assignable |-> first_last_assignable(n)[2],
     broadcast |-> broadcast_or_none(n),
     num_addresses |-> Digits(num_addresses(n), 10),
     size_be_hex |-> int_to_be_hex(num_addresses(n))]

\* the two loops over ipv4_prefixes() and ipv6_prefixes()
SeedNetworks ==
    /\ b_pc = "seeds"
    /\ b_nets' = seed_nets(4) \o seed_nets(6)
    /\ b_pc' = "fill"
    /\ UNCHANGED <<b_n_v4, b_n_v6, b_test_networks>>
    /\ UNCHANGED notSuite

\* one iteration of the first while loop: nets.append(rand_net(4, ...))
FillV4 ==
    /\ b_pc = "fill"
    /\ count_of(b_nets, 4) < b_n_v4
    /\ \E i \in 1..Len(ipv4_prefixes) : \E bits \in RandomBits(4) :
          b_nets' = Append(b_nets, ip_network_loose(4, bits, ipv4_prefixes[i]))
    /\ UNCHANGED <<b_n_v4, b_n_v6, b_test_networks, b_pc>>
    /\ UNCHANGED notSuite

\* one iteration of the second while loop: nets.append(rand_net(6, ...))
FillV6 ==
    /\ b_pc = "fill"
    /\ count_of(b_nets, 4) >= b_n_v4
    /\ count_of(b_nets, 6) < b_n_v6
    /\ \E i \in 1..Len(ipv6_prefixes) : \E bits \in RandomBits(6) :
          b_nets' = Append(b_nets, ip_network_loose(6, bits, ipv6_prefixes[i]))
    /\ UNCHANGED <<b_n_v4, b_n_v6, b_test_networks, b_pc>>
    /\ UNCHANGED notSuite

\* nets = list(dict.fromkeys(nets)) and the test_networks loop
TestNetworks ==
    /\ b_pc = "fill"
    /\ count_of(b_nets, 4) >= b_n_v4
    /\ count_of(b_nets, 6) >= b_n_v6
    /\ b_nets' = fromkeys(b_nets)
    /\ b_test_networks' = [i \in 1..Len(fromkeys(b_nets)) |-> test_network(fromkeys(b_nets)[i])]
    /\ b_pc' = "adjacency"
    /\ UNCHANGED <<b_n_v4, b_n_v6>>
    /\ UNCHANGED notSuite

\* ------------------------------------------------------------- gen_netmask
\* ipaddress's _ALL_ONES of a family
ALL_ONES(version) == Pow2(BITS(version)) - 1

\* the host mask in place of the netmask
netmask_hostmask(version, p) == ALL_ONES(version) \div Pow2(p)

\* ipaddress's _make_netmask: ALL_ONES ^ (ALL_ONES >> prefixlen); the shifted
\* value has only bits that ALL_ONES has, so the exclusive or subtracts it
netmask(version, p) == ALL_ONES(version) - (ALL_ONES(version) \div Pow2(p))

\* the number of bytes an address of the family packs into (4 and 16 in the
\* source, where a byte has 8 bits)
packed_length(version) == (BITS(version) + ByteBits - 1) \div ByteBits

\* x.to_bytes(length, "big").hex(): two hex digits per byte
hex_of_bytes(x, length) == PaddedDigits(x, HexRadix, 2 * length)

\* (version, octets, max_prefix, base): both bases are the zero address
variants ==
    << [version |-> "V4", family |-> 4, octets |-> packed_length(4), max_prefix |-> Bits4],
       [version |-> "V6", family |-> 6, octets |-> packed_length(6), max_prefix |-> Bits6] >>

netmask_case(v, p) ==
    [version |-> v.version,
     prefix |-> p,
     octet_count |-> v.octets,
     netmask_hex |-> hex_of_bytes(netmask(v.family, p), packed_length(v.family))]

\* one iteration of the inner loop: the length check, then cases.append
NetmaskCase ==
    /\ nm_pc = "loop"
    /\ nm_variant <= Len(variants)
    /\ nm_p <= variants[nm_variant].max_prefix
    /\ IF packed_length(variants[nm_variant].family) # variants[nm_variant].octets
       THEN /\ nm_pc' = "raised"
            /\ UNCHANGED <<nm_variant, nm_p, nm_cases>>
       ELSE /\ nm_cases' = Append(nm_cases, netmask_case(variants[nm_variant], nm_p))
            /\ nm_p' = nm_p + 1
            /\ UNCHANGED <<nm_variant, nm_pc>>
    /\ UNCHANGED notNetmask

\* the inner loop is exhausted: the outer loop takes the next variant
NetmaskVariant ==
    /\ nm_pc = "loop"
    /\ nm_variant <= Len(variants)
    /\ nm_p > variants[nm_variant].max_prefix
    /\ nm_variant' = nm_variant + 1
    /\ nm_p' = 0
    /\ UNCHANGED <<nm_cases, nm_pc>>
    /\ UNCHANGED notNetmask

\* return cases
NetmaskReturn ==
    /\ nm_pc = "loop"
    /\ nm_variant > Len(variants)
    /\ nm_pc' = "done"
    /\ UNCHANGED <<nm_variant, nm_p, nm_cases>>
    /\ UNCHANGED notNetmask

\* ------------------------------------------------------------ gen_overlongs
\* the overlong integers have one bit more than an IPv6 address
OverlongBits == Bits6 + 1
MAX_128 == Pow2(Bits6) - 1
MAX_129 == Pow2(OverlongBits) - 1
TWO_POW_128 == Pow2(Bits6)

\* a call's outcome: the value returned, or ValueError raised
Returned(v) == [raised |-> FALSE, value |-> v]
ValueError == [raised |-> TRUE, value |-> 0]

\* encode_overlong_hex with the shorter length for every value
encode_overlong_short(n) ==
    IF n < 0 \/ n > MAX_129 THEN ValueError
    ELSE Returned(hex_of_bytes(n, packed_length(6)))

encode_overlong_hex(n) ==
    IF n < 0 \/ n > MAX_129 THEN ValueError
    ELSE LET length == IF n < TWO_POW_128 THEN packed_length(6) ELSE packed_length(6) + 1
         IN  Returned(hex_of_bytes(n, length))

\* a bitwise operator of Python on non-negative integers, bit by bit
RECURSIVE bitwise(_, _, _)
bitwise(a, b, bit) ==
    IF a = 0 /\ b = 0 THEN 0
    ELSE 2 * bitwise(a \div 2, b \div 2, bit) + bit[a % 2][b % 2]

\* (~a) & MAX_129 without the mask
op_inv_unmasked(a) == (-a) - 1

\* (~a) & MAX_129: ~a is -a - 1, and masking a negative integer with 2^k - 1
\* leaves its residue modulo 2^k
op_inv(a) == ((-a) - 1) % (MAX_129 + 1)

op_and(a, b) == bitwise(a, b, [x \in 0..1 |-> [y \in 0..1 |-> x * y]]) % (MAX_129 + 1)
op_or(a, b) == bitwise(a, b, [x \in 0..1 |-> [y \in 0..1 |-> Max(x, y)]]) % (MAX_129 + 1)
op_xor(a, b) == bitwise(a, b, [x \in 0..1 |-> [y \in 0..1 |-> (x + y) % 2]]) % (MAX_129 + 1)

\* op_shl without the mask
op_shl_unmasked(a, s) ==
    IF ~(0 <= s /\ s <= Bits6) THEN ValueError
    ELSE Returned(a * Pow2(s))

\* the shift amounts are bounded by the IPv6 width (128 in the source)
op_shl(a, s) ==
    IF ~(0 <= s /\ s <= Bits6) THEN ValueError
    ELSE Returned((a * Pow2(s)) % (MAX_129 + 1))

\* op_shr accepting one shift amount more
op_shr_wide(a, s) ==
    IF ~(0 <= s /\ s <= Bits6 + 1) THEN ValueError
    ELSE Returned(a \div Pow2(s))

op_shr(a, s) ==
    IF ~(0 <= s /\ s <= Bits6) THEN ValueError
    ELSE Returned(a \div Pow2(s))

\* rand_overlong: getrandbits(129) one time in ten, else one of the listed
\* values; every listed value is a 129-bit value
rand_overlong == 0..MAX_129

\* [0,1,7,8,15,16,31,32,63,64,127,128]: 0 and 1, then the last bit of a byte,
\* of two bytes, of a quarter, of a half and of the whole IPv6 width, each
\* with the amount one above it
interesting_shifts ==
    {0, 1} \cup UNION {{k - 1, k} : k \in {ByteBits, 2 * ByteBits, Bits6 \div 4, Bits6 \div 2, Bits6}}

\* the edges of the shift loop are values rand_overlong can return as well
edges == {0, 1, 2, 3, Pow2(ByteBits) - 1, Pow2(Bits6 \div 2 - 1) - 1, Pow2(Bits6 \div 2 - 1),
          Pow2(Bits6 - 1) - 1, Pow2(Bits6 - 1), Pow2(Bits6 - 1) + 1,
          MAX_128, MAX_128 + 1, TWO_POW_128, TWO_POW_128 + 1, MAX_129 - 1, MAX_129}

\* one test record of build(); an operand or a result that does not encode
\* makes build() raise
Test(a, operation, argument, out) ==
    [input |-> encode_overlong_hex(a),
     operation |-> operation,
     argument |-> argument,
     output |-> encode_overlong_hex(out)]

\* one iteration of the INV loop
BuildInv ==
    /\ o_op = "init"
    /\ \E a \in rand_overlong :
          /\ o_a' = a
          /\ o_res' = Returned(op_inv(a))
          /\ o_test' = Test(a, "INV", Null, op_inv(a))
    /\ o_op' = "INV"
    /\ UNCHANGED <<o_b, o_s>>
    /\ UNCHANGED notOverlong

\* one iteration of the AND, the OR or the XOR loop
BuildBinary ==
    /\ o_op = "init"
    /\ \E operation \in {"AND", "OR", "XOR"} : \E a \in rand_overlong : \E b \in rand_overlong :
          LET out == CASE operation = "AND" -> op_and(a, b)
                       [] operation = "OR" -> op_or(a, b)
                       [] OTHER -> op_xor(a, b)
          IN  /\ o_op' = operation
              /\ o_a' = a
              /\ o_b' = b
              /\ o_res' = Returned(out)
              /\ o_test' = Test(a, operation, encode_overlong_hex(b), out)
    /\ UNCHANGED o_s
    /\ UNCHANGED notOverlong

\* one SHL or SHR record of the shift loops, for an edge or a random operand
BuildShift ==
    /\ o_op = "init"
    /\ \E operation \in {"SHL", "SHR"} : \E s \in interesting_shifts :
       \E a \in edges \cup rand_overlong :
          LET r == IF operation = "SHL" THEN op_shl(a, s) ELSE op_shr(a, s)
          IN  /\ o_op' = operation
              /\ o_a' = a
              /\ o_s' = s
              /\ o_res' = r
              /\ o_test' = IF r.raised THEN Null ELSE Test(a, operation, Digits(s, 10), r.value)
    /\ UNCHANGED o_b
    /\ UNCHANGED notOverlong

\* op_shl or op_shr called with any shift amount around the allowed ones
ApplyShift ==
    /\ o_op = "init"
    /\ \E operation \in {"op_shl", "op_shr"} : \E s \in (-2)..(Bits6 + 2) : \E a \in rand_overlong :
          /\ o_op' = operation
          /\ o_a' = a
          /\ o_s' = s
          /\ o_res' = IF operation = "op_shl" THEN op_shl(a, s) ELSE op_shr(a, s)
    /\ UNCHANGED <<o_b, o_test>>
    /\ UNCHANGED notOverlong

\* encode_overlong_hex called with any integer around the 129-bit values
ApplyEncode ==
    /\ o_op = "init"
    /\ \E n \in (-2)..(MAX_129 + 2) :
          /\ o_a' = n
          /\ o_res' = encode_overlong_hex(n)
    /\ o_op' = "encode_overlong_hex"
    /\ UNCHANGED <<o_b, o_s, o_test>>
    /\ UNCHANGED notOverlong

\* ------------------------------------------------------------------ ip_sort
\* cmp_int without the equal case
cmp_int_no_equal(a, b) == IF a < b THEN -1 ELSE 1

cmp_int(a, b) == IF a < b THEN -1 ELSE IF a > b THEN 1 ELSE 0

\* a spelling of an address that str() does not produce: one more leading
\* zero, as in 2001:db8:0:0:0:0:0:1 for 2001:db8::1
spelled_out(a) == <<CharOfDigit(0)>> \o str(a)

\* the curated IPv4 pairs: both ends of the range, a byte boundary, equal
\* and neighbouring addresses in both orders
curated_v4 ==
    LET lit(x) == str(Address(4, x))
        top == Pow2(Bits4) - 1
    IN  << <<lit(0), lit(0)>>,
           <<lit(0), lit(1)>>,
           <<lit(1), lit(0)>>,
           <<lit(Pow2(ByteBits) - 1), lit(Pow2(ByteBits))>>,
           <<lit(top - 1), lit(top)>>,
           <<lit(Q4 + 4), lit(Q4 + 5)>>,
           <<lit(Q4 + 5), lit(Q4 + 4)>>,
           <<lit(Q4 + 1), lit(Q4 + 1)>>,
           <<lit(3 * Q4 + 1), lit(3 * Q4 + 2)>>,
           <<lit(2 * Q4 - 1), lit(2 * Q4 - 1)>> >>

\* the curated IPv6 pairs; the eighth spells one address in two ways
curated_v6 ==
    LET lit(x) == str(Address(6, x))
        top == Pow2(Bits6) - 1
    IN  << <<lit(0), lit(0)>>,
           <<lit(0), lit(1)>>,
           <<lit(1), lit(0)>>,
           <<lit(Pow2(ByteBits) - 1), lit(Pow2(ByteBits))>>,
           <<lit(Pow2(2 * ByteBits) - Pow2(ByteBits)), lit(Pow2(2 * ByteBits) - Pow2(ByteBits) + 1)>>,
           <<lit(Q6), lit(Q6 + 1)>>,
           <<lit(Q6 + 1), lit(Q6)>>,
           <<spelled_out(Address(6, Q6 + 1)), lit(Q6 + 1)>>,
           <<lit(top - 1), lit(top)>>,
           <<lit(Pow2(2 * ByteBits) - Pow2(ByteBits) + 1), lit(Pow2(2 * ByteBits) - Pow2(ByteBits) + 2)>>,
           <<lit(3 * Q6 + 1), lit(3 * Q6 + 1)>>,
           <<lit(Q6 + 2), lit(Q6 + 3)>> >>

\* IPv4Address(literal) / IPv6Address(literal): the digits give the value, the
\* constructor gives the family
IPAddress(version, literal) ==
    Address(version, ParseDigits(SubSeq(literal, 1, Len(literal) - 1), IF version = 4 THEN 10 ELSE 16))

to_case(version, a_str, b_str, cmp_val) ==
    [version |-> version, a |-> a_str, b |-> b_str, cmp |-> cmp_val]

\* the case main() appends for a pair of addresses of one family
sort_case(version, a, b) ==
    to_case(IF version = 4 THEN "V4" ELSE "V6", str(a), str(b), cmp_int(a.value, b.value))

\* a curated pair of gen_ipv4_pairs or gen_ipv6_pairs and its case
SortCurated ==
    /\ t_op = "init"
    /\ \E version \in {4, 6} :
          LET curated == IF version = 4 THEN curated_v4 ELSE curated_v6
          IN  \E i \in 1..Len(curated) :
                 LET a == IPAddress(version, curated[i][1])
                     b == IPAddress(version, curated[i][2])
                 IN  /\ t_lit_a' = curated[i][1]
                     /\ t_lit_b' = curated[i][2]
                     /\ t_a' = a
                     /\ t_b' = b
                     /\ t_case' = sort_case(version, a, b)
    /\ t_op' = "curated"
    /\ UNCHANGED notSort

\* a random pair of gen_ipv4_pairs: IPv4Address(rng.randrange(0, 2**32))
SortRandomV4 ==
    /\ t_op = "init"
    /\ \E x \in 0..(Pow2(Bits4) - 1) : \E y \in 0..(Pow2(Bits4) - 1) :
          /\ t_a' = Address(4, x)
          /\ t_b' = Address(4, y)
          /\ t_case' = sort_case(4, Address(4, x), Address(4, y))
    /\ t_op' = "random"
    /\ UNCHANGED <<t_lit_a, t_lit_b>>
    /\ UNCHANGED notSort

\* a random pair of gen_ipv6_pairs: IPv6Address((hi << 64) | lo), each half
\* drawn with getrandbits
SortRandomV6 ==
    /\ t_op = "init"
    /\ LET lo_bits == Bits6 \div 2
           halves == (0..(Pow2(Bits6 - lo_bits) - 1)) \X (0..(Pow2(lo_bits) - 1))
       IN  \E ha \in halves : \E hb \in halves :
              LET a == Address(6, ha[1] * Pow2(lo_bits) + ha[2])
                  b == Address(6, hb[1] * Pow2(lo_bits) + hb[2])
              IN  /\ t_a' = a
                  /\ t_b' = b
                  /\ t_case' = sort_case(6, a, b)
    /\ t_op' = "random"
    /\ UNCHANGED <<t_lit_a, t_lit_b>>
    /\ UNCHANGED notSort

\* ------------------------------------ random non-mergeable pairs (gen_merge_cases.py)
\* random_ipv4_prefix / random_ipv6_prefix: the last 8 prefixes below W for V4
\* and the 4 around W/2 for V6, those deeper than the region
random_prefix_choices(v) ==
    IF v = 4
    THEN { q \in (Bits4 - 8)..(Bits4 - 1) : q > random_base(4).prefixlen }
    ELSE { q \in (Bits6 \div 2 - 1)..(Bits6 \div 2 + 2) : q > random_base(6).prefixlen }

\* ipaddress.ip_network((x, p), strict): IPv4 when the integer and the prefix
\* fit IPv4, else IPv6; None stands for ValueError
ip_network_of_int(x, p, strict) ==
    LET v == IF x < Pow2(Bits4) /\ p <= Bits4 THEN 4 ELSE 6
        host == x % Pow2(BITS(v) - p)
    IN  IF x < 0 \/ x >= Pow2(Bits6) \/ p < 0 \/ p > Bits6 THEN None
        ELSE IF strict /\ host # 0 THEN None
        ELSE Network(v, x - host, p)

make_adjacent_of_same_prefix(n) ==
    LET low == network_address(n)
        high == broadcast_address(n)
        step == high - low + 1
        right == ip_network_of_int(high + 1, n.prefixlen, TRUE)
        left_int == low - step
    IN  IF right # None THEN right
        ELSE IF left_int >= 0 THEN ip_network_of_int(left_int, n.prefixlen, TRUE)
        ELSE n

\* the test of the disjoint loop on a draw b: no overlap and no collapse
disjoint_accepts(a, b) == ~overlaps(a, b) /\ Len(collapse_pair(a, b)) # 1

\* p = random prefix, a = random network, kind = random.choice(...)
PickNonmergeable ==
    /\ n_pc = "init"
    /\ \E version \in {4, 6} : \E p \in random_prefix_choices(version) :
          n_a' \in random_network_choices(version, p)
    /\ n_pc' \in {"adjacent_diff_prefix", "containment", "disjoint", "adjacent_misaligned"}
    /\ UNCHANGED <<n_b, n_tries, n_draws, n_case>>
    /\ UNCHANGED notNonmerge

\* b = ip_network((int(a.broadcast_address) + 1, max(0, p - 1)), strict=False)
AdjacentDiffPrefix ==
    /\ n_pc = "adjacent_diff_prefix"
    /\ n_b' = ip_network_of_int(broadcast_address(n_a) + 1, Max(0, n_a.prefixlen - 1), FALSE)
    /\ n_pc' = "returned"
    /\ UNCHANGED <<n_a, n_tries, n_draws, n_case>>
    /\ UNCHANGED notNonmerge

\* b = list(a.subnets(new_prefix=min(W, p + 1)))[0]
Containment ==
    /\ n_pc = "containment"
    /\ n_b' = subnets(n_a, Min(max_prefixlen(n_a), n_a.prefixlen + 1))[1]
    /\ n_pc' = "returned"
    /\ UNCHANGED <<n_a, n_tries, n_draws, n_case>>
    /\ UNCHANGED notNonmerge

\* the right neighbour; when the two are siblings, a moves one block up and
\* the neighbour is taken again
AdjacentMisaligned ==
    /\ n_pc = "adjacent_misaligned"
    /\ LET neighbor == make_adjacent_of_same_prefix(n_a)
           parent == IF n_a.prefixlen > 0 THEN collapse_pair(n_a, neighbor)[1] ELSE n_a
           moved == Network(n_a.version,
                            network_address(n_a) + Pow2(max_prefixlen(n_a) - n_a.prefixlen),
                            n_a.prefixlen)
       IN  IF parent.prefixlen = n_a.prefixlen - 1
           THEN /\ n_a' = moved
                /\ n_b' = make_adjacent_of_same_prefix(moved)
           ELSE /\ n_a' = n_a
                /\ n_b' = neighbor
    /\ n_pc' = "returned"
    /\ UNCHANGED <<n_tries, n_draws, n_case>>
    /\ UNCHANGED notNonmerge

\* one iteration of the disjoint loop: draw b, return it when it passes the
\* test, else count the try and return it all the same after more than 10
DisjointDraw ==
    /\ n_pc = "disjoint"
    /\ \E b \in random_network_choices(n_a.version, n_a.prefixlen) :
          /\ n_b' = b
          /\ n_draws' = n_draws + 1
          /\ IF disjoint_accepts(n_a, b)
             THEN /\ n_pc' = "returned"
                  /\ n_tries' = n_tries
             ELSE /\ n_tries' = n_tries + 1
                  /\ n_pc' = IF n_tries + 1 > 10 THEN "returned" ELSE "disjoint"
    /\ UNCHANGED <<n_a, n_case>>
    /\ UNCHANGED notNonmerge

\* random_cases: cases.append(make_case(a, b, "random non-mergeable"))
NonmergeableCase ==
    /\ n_pc = "returned"
    /\ n_case' = make_case(n_a, n_b, "random non-mergeable")
    /\ n_pc' = "case"
    /\ UNCHANGED <<n_a, n_b, n_tries, n_draws>>
    /\ UNCHANGED notNonmerge

\* ------------------------------------------ adjacency cases (gen_properties.py)
\* the pools the loops draw from: the seeds alone, or the seeds and one random
\* network of either family, deduplicated
suite_pools ==
    LET seeds == seed_nets(4) \o seed_nets(6)
        rand(version) == { ip_network_loose(version, bits, prefixes(version)[i]) :
                              bits \in RandomBits(version), i \in 1..Len(prefixes(version)) }
    IN  {fromkeys(seeds)} \cup { fromkeys(Append(seeds, n)) : n \in rand(4) \cup rand(6) }

adjacency_case(a, b, are_adjacent, relation) ==
    [family |-> family_name(a),
     a_cidr |-> net_str(a),
     b_cidr |-> net_str(b),
     are_adjacent |-> are_adjacent,
     overlaps |-> overlaps(a, b),
     relation |-> relation]

\* sibs = list(base.subnets(new_prefix=base.prefixlen + 1))
disjoint_sibs(base) == subnets(base, base.prefixlen + 1)

\* one iteration of the adjacent-siblings loop
AdjacentStep ==
    /\ j_pc = "adjacent"
    /\ j_k < j_n_pairs \div 3
    /\ \E i \in 1..Len(j_nets) :
          LET base == j_nets[i]
              kids == subnets(supernet(base), base.prefixlen)
          IN  /\ j_base' = base
              /\ j_cases' = IF base.prefixlen = 0 \/ Len(kids) < 2 THEN j_cases
                            ELSE Append(j_cases, adjacency_case(kids[1], kids[2], TRUE, "adjacent"))
    /\ j_k' = j_k + 1
    /\ UNCHANGED <<j_nets, j_n_pairs, j_pc>>
    /\ UNCHANGED notAdjacency

\* one iteration of the containment loop
ContainmentStep ==
    /\ j_pc = "containment"
    /\ j_k < j_n_pairs \div 3
    /\ \E i \in 1..Len(j_nets) :
          LET base == j_nets[i]
              sup == supernet(base)
          IN  /\ j_base' = base
              /\ j_cases' = IF base.prefixlen = 0 THEN j_cases
                            ELSE Append(j_cases,
                                   adjacency_case(sup, base, FALSE,
                                      IF supernet_of(sup, base) THEN "A_contains_B"
                                      ELSE "relation_check"))
    /\ j_k' = j_k + 1
    /\ UNCHANGED <<j_nets, j_n_pairs, j_pc>>
    /\ UNCHANGED notAdjacency

\* one iteration of the disjoint loop: nothing is appended for a base at the
\* deepest prefix or with fewer than three subnets
DisjointStep ==
    /\ j_pc = "disjoint"
    /\ j_k < j_n_pairs \div 3
    /\ \E i \in 1..Len(j_nets) :
          LET base == j_nets[i]
              deepest == max_prefixlen(base) - 1
          IN  /\ j_base' = base
              /\ j_cases' = IF base.prefixlen >= deepest \/ Len(disjoint_sibs(base)) < 3
                            THEN j_cases
                            ELSE Append(j_cases,
                                   adjacency_case(disjoint_sibs(base)[1], disjoint_sibs(base)[3],
                                                  FALSE, "disjoint"))
    /\ j_k' = j_k + 1
    /\ UNCHANGED <<j_nets, j_n_pairs, j_pc>>
    /\ UNCHANGED notAdjacency

\* range(n_pairs // 3) is exhausted: the next loop starts, or the suite is
\* returned
LoopEnd ==
    /\ j_pc \in {"adjacent", "containment", "disjoint"}
    /\ j_k = j_n_pairs \div 3
    /\ j_pc' = CASE j_pc = "adjacent" -> "containment"
                 [] j_pc = "containment" -> "disjoint"
                 [] OTHER -> "done"
    /\ j_k' = 0
    /\ UNCHANGED <<j_nets, j_n_pairs, j_base, j_cases>>
    /\ UNCHANGED notAdjacency

\* ------------------------------------------------------------ specifications
\* the sampler is given any network and a cap
InitSample ==
    /\ sample_n \in AllNetworks
    /\ addr_steps_cap \in 0..MaxCap
    /\ sample_out = <<>>
    /\ sample_k = 0
    /\ sample_pc = "start"
    /\ sample_ret = <<>>
    /\ c_outer = None
    /\ c_scale = "none"
    /\ c_budget = 0
    /\ c_new_prefix = 0
    /\ c_cases = <<>>
    /\ c_errors = <<>>
    /\ c_child = None
    /\ c_op = "idle"
    /\ m_a = None
    /\ m_b = None
    /\ m_parent = None
    /\ m_res = Failed(NoReason)
    /\ m_case = NoCase
    /\ rng = 0
    /\ overlongs_imported = FALSE
    /\ runs = {}
    /\ a_scale = "none"
    /\ a_list = "none"
    /\ a_idx = 0
    /\ a_cases = <<>>
    /\ x_nets = <<>>
    /\ x_idx = 0
    /\ x_seen = {}
    /\ x_pairs = <<>>
    /\ x_tt = <<>>
    /\ x_pc = "idle"
    /\ s_nets = <<>>
    /\ s_i = 0
    /\ s_j = 0
    /\ s_union = <<>>
    /\ s_intersection = <<>>
    /\ s_difference = <<>>
    /\ s_pc = "idle"
    /\ b_n_v4 = 0
    /\ b_n_v6 = 0
    /\ b_nets = <<>>
    /\ b_test_networks = <<>>
    /\ b_pc = "idle"
    /\ m_op = "idle"
    /\ nm_variant = 0
    /\ nm_p = 0
    /\ nm_cases = <<>>
    /\ nm_pc = "idle"
    /\ o_op = "idle"
    /\ o_a = 0
    /\ o_b = 0
    /\ o_s = 0
    /\ o_res = [raised |-> FALSE, value |-> 0]
    /\ o_test = <<>>
    /\ t_op = "idle"
    /\ t_lit_a = <<>>
    /\ t_lit_b = <<>>
    /\ t_a = [version |-> 0, value |-> 0]
    /\ t_b = [version |-> 0, value |-> 0]
    /\ t_case = <<>>
    /\ n_a = None
    /\ n_b = None
    /\ n_tries = 0
    /\ n_draws = 0
    /\ n_pc = "idle"
    /\ n_case = NoCase
    /\ j_nets = <<>>
    /\ j_n_pairs = 0
    /\ j_pc = "idle"
    /\ j_k = 0
    /\ j_base = None
    /\ j_cases = <<>>

\* the per-network builders are given any network
InitContain ==
    /\ sample_n = None
    /\ addr_steps_cap = 0
    /\ sample_out = <<>>
    /\ sample_k = 0
    /\ sample_pc = "idle"
    /\ sample_ret = <<>>
    /\ c_outer \in AllNetworks
    /\ c_scale = "none"
    /\ c_budget = 0
    /\ c_new_prefix = 0
    /\ c_cases = <<>>
    /\ c_errors = <<>>
    /\ c_child = None
    /\ c_op = "init"
    /\ m_a = None
    /\ m_b = None
    /\ m_parent = None
    /\ m_res = Failed(NoReason)
    /\ m_case = NoCase
    /\ rng = 0
    /\ overlongs_imported = FALSE
    /\ runs = {}
    /\ a_scale = "none"
    /\ a_list = "none"
    /\ a_idx = 0
    /\ a_cases = <<>>
    /\ x_nets = <<>>
    /\ x_idx = 0
    /\ x_seen = {}
    /\ x_pairs = <<>>
    /\ x_tt = <<>>
    /\ x_pc = "idle"
    /\ s_nets = <<>>
    /\ s_i = 0
    /\ s_j = 0
    /\ s_union = <<>>
    /\ s_intersection = <<>>
    /\ s_difference = <<>>
    /\ s_pc = "idle"
    /\ b_n_v4 = 0
    /\ b_n_v6 = 0
    /\ b_nets = <<>>
    /\ b_test_networks = <<>>
    /\ b_pc = "idle"
    /\ m_op = "idle"
    /\ nm_variant = 0
    /\ nm_p = 0
    /\ nm_cases = <<>>
    /\ nm_pc = "idle"
    /\ o_op = "idle"
    /\ o_a = 0
    /\ o_b = 0
    /\ o_s = 0
    /\ o_res = [raised |-> FALSE, value |-> 0]
    /\ o_test = <<>>
    /\ t_op = "idle"
    /\ t_lit_a = <<>>
    /\ t_lit_b = <<>>
    /\ t_a = [version |-> 0, value |-> 0]
    /\ t_b = [version |-> 0, value |-> 0]
    /\ t_case = <<>>
    /\ n_a = None
    /\ n_b = None
    /\ n_tries = 0
    /\ n_draws = 0
    /\ n_pc = "idle"
    /\ n_case = NoCase
    /\ j_nets = <<>>
    /\ j_n_pairs = 0
    /\ j_pc = "idle"
    /\ j_k = 0
    /\ j_base = None
    /\ j_cases = <<>>

\* the merge oracle is given any two networks, or draws a sibling pair itself
InitMerge ==
    /\ sample_n = None
    /\ addr_steps_cap = 0
    /\ sample_out = <<>>
    /\ sample_k = 0
    /\ sample_pc = "idle"
    /\ sample_ret = <<>>
    /\ c_outer = None
    /\ c_scale = "none"
    /\ c_budget = 0
    /\ c_new_prefix = 0
    /\ c_cases = <<>>
    /\ c_errors = <<>>
    /\ c_child = None
    /\ c_op = "idle"
    /\ \/ m_a \in AllNetworks /\ m_b \in AllNetworks /\ m_op = "init"
       \/ m_a = None /\ m_b = None /\ m_op = "random"
    /\ m_parent = None
    /\ m_res = Failed(NoReason)
    /\ m_case = NoCase
    /\ rng = 0
    /\ overlongs_imported = FALSE
    /\ runs = {}
    /\ a_scale = "none"
    /\ a_list = "none"
    /\ a_idx = 0
    /\ a_cases = <<>>
    /\ x_nets = <<>>
    /\ x_idx = 0
    /\ x_seen = {}
    /\ x_pairs = <<>>
    /\ x_tt = <<>>
    /\ x_pc = "idle"
    /\ s_nets = <<>>
    /\ s_i = 0
    /\ s_j = 0
    /\ s_union = <<>>
    /\ s_intersection = <<>>
    /\ s_difference = <<>>
    /\ s_pc = "idle"
    /\ b_n_v4 = 0
    /\ b_n_v6 = 0
    /\ b_nets = <<>>
    /\ b_test_networks = <<>>
    /\ b_pc = "idle"
    /\ nm_variant = 0
    /\ nm_p = 0
    /\ nm_cases = <<>>
    /\ nm_pc = "idle"
    /\ o_op = "idle"
    /\ o_a = 0
    /\ o_b = 0
    /\ o_s = 0
    /\ o_res = [raised |-> FALSE, value |-> 0]
    /\ o_test = <<>>
    /\ t_op = "idle"
    /\ t_lit_a = <<>>
    /\ t_lit_b = <<>>
    /\ t_a = [version |-> 0, value |-> 0]
    /\ t_b = [version |-> 0, value |-> 0]
    /\ t_case = <<>>
    /\ n_a = None
    /\ n_b = None
    /\ n_tries = 0
    /\ n_draws = 0
    /\ n_pc = "idle"
    /\ n_case = NoCase
    /\ j_nets = <<>>
    /\ j_n_pairs = 0
    /\ j_pc = "idle"
    /\ j_k = 0
    /\ j_base = None
    /\ j_cases = <<>>

\* a fresh process: the generator starts in a state taken from the system
InitSeed ==
    /\ sample_n = None
    /\ addr_steps_cap = 0
    /\ sample_out = <<>>
    /\ sample_k = 0
    /\ sample_pc = "idle"
    /\ sample_ret = <<>>
    /\ c_outer = None
    /\ c_scale = "none"
    /\ c_budget = 0
    /\ c_new_prefix = 0
    /\ c_cases = <<>>
    /\ c_errors = <<>>
    /\ c_child = None
    /\ c_op = "idle"
    /\ m_a = None
    /\ m_b = None
    /\ m_op = "idle"
    /\ m_parent = None
    /\ m_res = Failed(NoReason)
    /\ m_case = NoCase
    /\ rng \in 0..(RngMod - 1)
    /\ overlongs_imported = FALSE
    /\ runs = {}
    /\ a_scale = "none"
    /\ a_list = "none"
    /\ a_idx = 0
    /\ a_cases = <<>>
    /\ x_nets = <<>>
    /\ x_idx = 0
    /\ x_seen = {}
    /\ x_pairs = <<>>
    /\ x_tt = <<>>
    /\ x_pc = "idle"
    /\ s_nets = <<>>
    /\ s_i = 0
    /\ s_j = 0
    /\ s_union = <<>>
    /\ s_intersection = <<>>
    /\ s_difference = <<>>
    /\ s_pc = "idle"
    /\ b_n_v4 = 0
    /\ b_n_v6 = 0
    /\ b_nets = <<>>
    /\ b_test_networks = <<>>
    /\ b_pc = "idle"
    /\ nm_variant = 0
    /\ nm_p = 0
    /\ nm_cases = <<>>
    /\ nm_pc = "idle"
    /\ o_op = "idle"
    /\ o_a = 0
    /\ o_b = 0
    /\ o_s = 0
    /\ o_res = [raised |-> FALSE, value |-> 0]
    /\ o_test = <<>>
    /\ t_op = "idle"
    /\ t_lit_a = <<>>
    /\ t_lit_b = <<>>
    /\ t_a = [version |-> 0, value |-> 0]
    /\ t_b = [version |-> 0, value |-> 0]
    /\ t_case = <<>>
    /\ n_a = None
    /\ n_b = None
    /\ n_tries = 0
    /\ n_draws = 0
    /\ n_pc = "idle"
    /\ n_case = NoCase
    /\ j_nets = <<>>
    /\ j_n_pairs = 0
    /\ j_pc = "idle"
    /\ j_k = 0
    /\ j_base = None
    /\ j_cases = <<>>

\* main(): a preset from the command line, one of the two lists, no case yet
InitAssemble ==
    /\ sample_n = None
    /\ addr_steps_cap = 0
    /\ sample_out = <<>>
    /\ sample_k = 0
    /\ sample_pc = "idle"
    /\ sample_ret = <<>>
    /\ c_outer = None
    /\ c_scale = "none"
    /\ c_budget = 0
    /\ c_new_prefix = 0
    /\ c_cases = <<>>
    /\ c_errors = <<>>
    /\ c_child = None
    /\ c_op = "idle"
    /\ m_a = None
    /\ m_b = None
    /\ m_op = "idle"
    /\ m_parent = None
    /\ m_res = Failed(NoReason)
    /\ m_case = NoCase
    /\ rng = 0
    /\ overlongs_imported = FALSE
    /\ runs = {}
    /\ a_scale \in ScaleNames
    /\ a_list \in {"addr_membership", "net_containment"}
    /\ a_idx = 1
    /\ a_cases = <<>>
    /\ x_nets = <<>>
    /\ x_idx = 0
    /\ x_seen = {}
    /\ x_pairs = <<>>
    /\ x_tt = <<>>
    /\ x_pc = "idle"
    /\ s_nets = <<>>
    /\ s_i = 0
    /\ s_j = 0
    /\ s_union = <<>>
    /\ s_intersection = <<>>
    /\ s_difference = <<>>
    /\ s_pc = "idle"
    /\ b_n_v4 = 0
    /\ b_n_v6 = 0
    /\ b_nets = <<>>
    /\ b_test_networks = <<>>
    /\ b_pc = "idle"
    /\ nm_variant = 0
    /\ nm_p = 0
    /\ nm_cases = <<>>
    /\ nm_pc = "idle"
    /\ o_op = "idle"
    /\ o_a = 0
    /\ o_b = 0
    /\ o_s = 0
    /\ o_res = [raised |-> FALSE, value |-> 0]
    /\ o_test = <<>>
    /\ t_op = "idle"
    /\ t_lit_a = <<>>
    /\ t_lit_b = <<>>
    /\ t_a = [version |-> 0, value |-> 0]
    /\ t_b = [version |-> 0, value |-> 0]
    /\ t_case = <<>>
    /\ n_a = None
    /\ n_b = None
    /\ n_tries = 0
    /\ n_draws = 0
    /\ n_pc = "idle"
    /\ n_case = NoCase
    /\ j_nets = <<>>
    /\ j_n_pairs = 0
    /\ j_pc = "idle"
    /\ j_k = 0
    /\ j_base = None
    /\ j_cases = <<>>

\* main(): the list of valid network literals, nothing built yet
InitPairs ==
    /\ sample_n = None
    /\ addr_steps_cap = 0
    /\ sample_out = <<>>
    /\ sample_k = 0
    /\ sample_pc = "idle"
    /\ sample_ret = <<>>
    /\ c_outer = None
    /\ c_scale = "none"
    /\ c_budget = 0
    /\ c_new_prefix = 0
    /\ c_cases = <<>>
    /\ c_errors = <<>>
    /\ c_child = None
    /\ c_op = "idle"
    /\ m_a = None
    /\ m_b = None
    /\ m_op = "idle"
    /\ m_parent = None
    /\ m_res = Failed(NoReason)
    /\ m_case = NoCase
    /\ rng = 0
    /\ overlongs_imported = FALSE
    /\ runs = {}
    /\ a_scale = "none"
    /\ a_list = "none"
    /\ a_idx = 0
    /\ a_cases = <<>>
    /\ x_nets \in UNION { [1..k -> ValidNetworks] : k \in 1..MaxNets }
    /\ x_idx = 1
    /\ x_seen = {}
    /\ x_pairs = <<>>
    /\ x_tt = <<>>
    /\ x_pc = "pairs"
    /\ s_nets = <<>>
    /\ s_i = 0
    /\ s_j = 0
    /\ s_union = <<>>
    /\ s_intersection = <<>>
    /\ s_difference = <<>>
    /\ s_pc = "idle"
    /\ b_n_v4 = 0
    /\ b_n_v6 = 0
    /\ b_nets = <<>>
    /\ b_test_networks = <<>>
    /\ b_pc = "idle"
    /\ nm_variant = 0
    /\ nm_p = 0
    /\ nm_cases = <<>>
    /\ nm_pc = "idle"
    /\ o_op = "idle"
    /\ o_a = 0
    /\ o_b = 0
    /\ o_s = 0
    /\ o_res = [raised |-> FALSE, value |-> 0]
    /\ o_test = <<>>
    /\ t_op = "idle"
    /\ t_lit_a = <<>>
    /\ t_lit_b = <<>>
    /\ t_a = [version |-> 0, value |-> 0]
    /\ t_b = [version |-> 0, value |-> 0]
    /\ t_case = <<>>
    /\ n_a = None
    /\ n_b = None
    /\ n_tries = 0
    /\ n_draws = 0
    /\ n_pc = "idle"
    /\ n_case = NoCase
    /\ j_nets = <<>>
    /\ j_n_pairs = 0
    /\ j_pc = "idle"
    /\ j_k = 0
    /\ j_base = None
    /\ j_cases = <<>>

\* main(): set_operations_examples is entered with a list of two literals
InitSetops ==
    /\ sample_n = None
    /\ addr_steps_cap = 0
    /\ sample_out = <<>>
    /\ sample_k = 0
    /\ sample_pc = "idle"
    /\ sample_ret = <<>>
    /\ c_outer = None
    /\ c_scale = "none"
    /\ c_budget = 0
    /\ c_new_prefix = 0
    /\ c_cases = <<>>
    /\ c_errors = <<>>
    /\ c_child = None
    /\ c_op = "idle"
    /\ m_a = None
    /\ m_b = None
    /\ m_op = "idle"
    /\ m_parent = None
    /\ m_res = Failed(NoReason)
    /\ m_case = NoCase
    /\ rng = 0
    /\ overlongs_imported = FALSE
    /\ runs = {}
    /\ a_scale = "none"
    /\ a_list = "none"
    /\ a_idx = 0
    /\ a_cases = <<>>
    /\ x_nets = <<>>
    /\ x_idx = 0
    /\ x_seen = {}
    /\ x_pairs = <<>>
    /\ x_tt = <<>>
    /\ x_pc = "idle"
    /\ \E a \in SetopsNetworks : \E b \in SetopsNetworks :
          s_nets = <<net_str(a), net_str(b)>>
    /\ s_i = 1
    /\ s_j = 1
    /\ s_union = <<>>
    /\ s_intersection = <<>>
    /\ s_difference = <<>>
    /\ s_pc = "loop"
    /\ b_n_v4 = 0
    /\ b_n_v6 = 0
    /\ b_nets = <<>>
    /\ b_test_networks = <<>>
    /\ b_pc = "idle"
    /\ nm_variant = 0
    /\ nm_p = 0
    /\ nm_cases = <<>>
    /\ nm_pc = "idle"
    /\ o_op = "idle"
    /\ o_a = 0
    /\ o_b = 0
    /\ o_s = 0
    /\ o_res = [raised |-> FALSE, value |-> 0]
    /\ o_test = <<>>
    /\ t_op = "idle"
    /\ t_lit_a = <<>>
    /\ t_lit_b = <<>>
    /\ t_a = [version |-> 0, value |-> 0]
    /\ t_b = [version |-> 0, value |-> 0]
    /\ t_case = <<>>
    /\ n_a = None
    /\ n_b = None
    /\ n_tries = 0
    /\ n_draws = 0
    /\ n_pc = "idle"
    /\ n_case = NoCase
    /\ j_nets = <<>>
    /\ j_n_pairs = 0
    /\ j_pc = "idle"
    /\ j_k = 0
    /\ j_base = None
    /\ j_cases = <<>>

\* build_suite(n_v4, n_v6, ...) is entered
InitSuite ==
    /\ sample_n = None
    /\ addr_steps_cap = 0
    /\ sample_out = <<>>
    /\ sample_k = 0
    /\ sample_pc = "idle"
    /\ sample_ret = <<>>
    /\ c_outer = None
    /\ c_scale = "none"
    /\ c_budget = 0
    /\ c_new_prefix = 0
    /\ c_cases = <<>>
    /\ c_errors = <<>>
    /\ c_child = None
    /\ c_op = "idle"
    /\ m_a = None
    /\ m_b = None
    /\ m_op = "idle"
    /\ m_parent = None
    /\ m_res = Failed(NoReason)
    /\ m_case = NoCase
    /\ rng = 0
    /\ overlongs_imported = FALSE
    /\ runs = {}
    /\ a_scale = "none"
    /\ a_list = "none"
    /\ a_idx = 0
    /\ a_cases = <<>>
    /\ x_nets = <<>>
    /\ x_idx = 0
    /\ x_seen = {}
    /\ x_pairs = <<>>
    /\ x_tt = <<>>
    /\ x_pc = "idle"
    /\ s_nets = <<>>
    /\ s_i = 0
    /\ s_j = 0
    /\ s_union = <<>>
    /\ s_intersection = <<>>
    /\ s_difference = <<>>
    /\ s_pc = "idle"
    /\ b_n_v4 \in Len(ipv4_prefixes)..(Len(ipv4_prefixes) + MaxFill)
    /\ b_n_v6 \in Len(ipv6_prefixes)..(Len(ipv6_prefixes) + MaxFill)
    /\ b_nets = <<>>
    /\ b_test_networks = <<>>
    /\ b_pc = "seeds"
    /\ nm_variant = 0
    /\ nm_p = 0
    /\ nm_cases = <<>>
    /\ nm_pc = "idle"
    /\ o_op = "idle"
    /\ o_a = 0
    /\ o_b = 0
    /\ o_s = 0
    /\ o_res = [raised |-> FALSE, value |-> 0]
    /\ o_test = <<>>
    /\ t_op = "idle"
    /\ t_lit_a = <<>>
    /\ t_lit_b = <<>>
    /\ t_a = [version |-> 0, value |-> 0]
    /\ t_b = [version |-> 0, value |-> 0]
    /\ t_case = <<>>
    /\ n_a = None
    /\ n_b = None
    /\ n_tries = 0
    /\ n_draws = 0
    /\ n_pc = "idle"
    /\ n_case = NoCase
    /\ j_nets = <<>>
    /\ j_n_pairs = 0
    /\ j_pc = "idle"
    /\ j_k = 0
    /\ j_base = None
    /\ j_cases = <<>>

NextSample == SampleBoundary \/ SampleWalk \/ SampleReturn

NextContain == TruePairs \/ FalsePairs \/ BoundedChild \/ SubnetCases

NextMerge == MakeCase \/ RandomMergeable

NextSeed == ImportOverlongs \/ BuildOverlongs \/ BuildSuite \/ MergeMain

NextAssemble == AddrSample \/ AddrMore \/ NetTrue \/ NetFalse

NextPairs == AugmentNet \/ TruthTable

NextSetops == SetOpsPair \/ SetOpsReturn

NextSuite == SeedNetworks \/ FillV4 \/ FillV6 \/ TestNetworks

\* one run is one generator at work
\* build_cases takes no input
InitNetmask ==
    /\ sample_n = None
    /\ addr_steps_cap = 0
    /\ sample_out = <<>>
    /\ sample_k = 0
    /\ sample_pc = "idle"
    /\ sample_ret = <<>>
    /\ c_outer = None
    /\ c_scale = "none"
    /\ c_budget = 0
    /\ c_new_prefix = 0
    /\ c_cases = <<>>
    /\ c_errors = <<>>
    /\ c_child = None
    /\ c_op = "idle"
    /\ m_a = None
    /\ m_b = None
    /\ m_op = "idle"
    /\ m_parent = None
    /\ m_res = Failed(NoReason)
    /\ m_case = NoCase
    /\ rng = 0
    /\ overlongs_imported = FALSE
    /\ runs = {}
    /\ a_scale = "none"
    /\ a_list = "none"
    /\ a_idx = 0
    /\ a_cases = <<>>
    /\ x_nets = <<>>
    /\ x_idx = 0
    /\ x_seen = {}
    /\ x_pairs = <<>>
    /\ x_tt = <<>>
    /\ x_pc = "idle"
    /\ s_nets = <<>>
    /\ s_i = 0
    /\ s_j = 0
    /\ s_union = <<>>
    /\ s_intersection = <<>>
    /\ s_difference = <<>>
    /\ s_pc = "idle"
    /\ b_n_v4 = 0
    /\ b_n_v6 = 0
    /\ b_nets = <<>>
    /\ b_test_networks = <<>>
    /\ b_pc = "idle"
    /\ nm_variant = 1
    /\ nm_p = 0
    /\ nm_cases = <<>>
    /\ nm_pc = "loop"
    /\ o_op = "idle"
    /\ o_a = 0
    /\ o_b = 0
    /\ o_s = 0
    /\ o_res = [raised |-> FALSE, value |-> 0]
    /\ o_test = <<>>
    /\ t_op = "idle"
    /\ t_lit_a = <<>>
    /\ t_lit_b = <<>>
    /\ t_a = [version |-> 0, value |-> 0]
    /\ t_b = [version |-> 0, value |-> 0]
    /\ t_case = <<>>
    /\ n_a = None
    /\ n_b = None
    /\ n_tries = 0
    /\ n_draws = 0
    /\ n_pc = "idle"
    /\ n_case = NoCase
    /\ j_nets = <<>>
    /\ j_n_pairs = 0
    /\ j_pc = "idle"
    /\ j_k = 0
    /\ j_base = None
    /\ j_cases = <<>>

NextNetmask == NetmaskCase \/ NetmaskVariant \/ NetmaskReturn

\* the overlong operations are applied to any operands
InitOverlong ==
    /\ sample_n = None
    /\ addr_steps_cap = 0
    /\ sample_out = <<>>
    /\ sample_k = 0
    /\ sample_pc = "idle"
    /\ sample_ret = <<>>
    /\ c_outer = None
    /\ c_scale = "none"
    /\ c_budget = 0
    /\ c_new_prefix = 0
    /\ c_cases = <<>>
    /\ c_errors = <<>>
    /\ c_child = None
    /\ c_op = "idle"
    /\ m_a = None
    /\ m_b = None
    /\ m_op = "idle"
    /\ m_parent = None
    /\ m_res = Failed(NoReason)
    /\ m_case = NoCase
    /\ rng = 0
    /\ overlongs_imported = FALSE
    /\ runs = {}
    /\ a_scale = "none"
    /\ a_list = "none"
    /\ a_idx = 0
    /\ a_cases = <<>>
    /\ x_nets = <<>>
    /\ x_idx = 0
    /\ x_seen = {}
    /\ x_pairs = <<>>
    /\ x_tt = <<>>
    /\ x_pc = "idle"
    /\ s_nets = <<>>
    /\ s_i = 0
    /\ s_j = 0
    /\ s_union = <<>>
    /\ s_intersection = <<>>
    /\ s_difference = <<>>
    /\ s_pc = "idle"
    /\ b_n_v4 = 0
    /\ b_n_v6 = 0
    /\ b_nets = <<>>
    /\ b_test_networks = <<>>
    /\ b_pc = "idle"
    /\ nm_variant = 0
    /\ nm_p = 0
    /\ nm_cases = <<>>
    /\ nm_pc = "idle"
    /\ o_op = "init"
    /\ o_a = 0
    /\ o_b = 0
    /\ o_s = 0
    /\ o_res = [raised |-> FALSE, value |-> 0]
    /\ o_test = <<>>
    /\ t_op = "idle"
    /\ t_lit_a = <<>>
    /\ t_lit_b = <<>>
    /\ t_a = [version |-> 0, value |-> 0]
    /\ t_b = [version |-> 0, value |-> 0]
    /\ t_case = <<>>
    /\ n_a = None
    /\ n_b = None
    /\ n_tries = 0
    /\ n_draws = 0
    /\ n_pc = "idle"
    /\ n_case = NoCase
    /\ j_nets = <<>>
    /\ j_n_pairs = 0
    /\ j_pc = "idle"
    /\ j_k = 0
    /\ j_base = None
    /\ j_cases = <<>>

NextOverlong == BuildInv \/ BuildBinary \/ BuildShift \/ ApplyShift \/ ApplyEncode

\* the pair lists are fixed: curated pairs, then pairs of random integers
InitSort ==
    /\ sample_n = None
    /\ addr_steps_cap = 0
    /\ sample_out = <<>>
    /\ sample_k = 0
    /\ sample_pc = "idle"
    /\ sample_ret = <<>>
    /\ c_outer = None
    /\ c_scale = "none"
    /\ c_budget = 0
    /\ c_new_prefix = 0
    /\ c_cases = <<>>
    /\ c_errors = <<>>
    /\ c_child = None
    /\ c_op = "idle"
    /\ m_a = None
    /\ m_b = None
    /\ m_op = "idle"
    /\ m_parent = None
    /\ m_res = Failed(NoReason)
    /\ m_case = NoCase
    /\ rng = 0
    /\ overlongs_imported = FALSE
    /\ runs = {}
    /\ a_scale = "none"
    /\ a_list = "none"
    /\ a_idx = 0
    /\ a_cases = <<>>
    /\ x_nets = <<>>
    /\ x_idx = 0
    /\ x_seen = {}
    /\ x_pairs = <<>>
    /\ x_tt = <<>>
    /\ x_pc = "idle"
    /\ s_nets = <<>>
    /\ s_i = 0
    /\ s_j = 0
    /\ s_union = <<>>
    /\ s_intersection = <<>>
    /\ s_difference = <<>>
    /\ s_pc = "idle"
    /\ b_n_v4 = 0
    /\ b_n_v6 = 0
    /\ b_nets = <<>>
    /\ b_test_networks = <<>>
    /\ b_pc = "idle"
    /\ nm_variant = 0
    /\ nm_p = 0
    /\ nm_cases = <<>>
    /\ nm_pc = "idle"
    /\ o_op = "idle"
    /\ o_a = 0
    /\ o_b = 0
    /\ o_s = 0
    /\ o_res = [raised |-> FALSE, value |-> 0]
    /\ o_test = <<>>
    /\ t_op = "init"
    /\ t_lit_a = <<>>
    /\ t_lit_b = <<>>
    /\ t_a = [version |-> 0, value |-> 0]
    /\ t_b = [version |-> 0, value |-> 0]
    /\ t_case = <<>>
    /\ n_a = None
    /\ n_b = None
    /\ n_tries = 0
    /\ n_draws = 0
    /\ n_pc = "idle"
    /\ n_case = NoCase
    /\ j_nets = <<>>
    /\ j_n_pairs = 0
    /\ j_pc = "idle"
    /\ j_k = 0
    /\ j_base = None
    /\ j_cases = <<>>

NextSort == SortCurated \/ SortRandomV4 \/ SortRandomV6

\* random_cases has chosen a non-mergeable pair
InitNonmerge ==
    /\ sample_n = None
    /\ addr_steps_cap = 0
    /\ sample_out = <<>>
    /\ sample_k = 0
    /\ sample_pc = "idle"
    /\ sample_ret = <<>>
    /\ c_outer = None
    /\ c_scale = "none"
    /\ c_budget = 0
    /\ c_new_prefix = 0
    /\ c_cases = <<>>
    /\ c_errors = <<>>
    /\ c_child = None
    /\ c_op = "idle"
    /\ m_a = None
    /\ m_b = None
    /\ m_op = "idle"
    /\ m_parent = None
    /\ m_res = Failed(NoReason)
    /\ m_case = NoCase
    /\ rng = 0
    /\ overlongs_imported = FALSE
    /\ runs = {}
    /\ a_scale = "none"
    /\ a_list = "none"
    /\ a_idx = 0
    /\ a_cases = <<>>
    /\ x_nets = <<>>
    /\ x_idx = 0
    /\ x_seen = {}
    /\ x_pairs = <<>>
    /\ x_tt = <<>>
    /\ x_pc = "idle"
    /\ s_nets = <<>>
    /\ s_i = 0
    /\ s_j = 0
    /\ s_union = <<>>
    /\ s_intersection = <<>>
    /\ s_difference = <<>>
    /\ s_pc = "idle"
    /\ b_n_v4 = 0
    /\ b_n_v6 = 0
    /\ b_nets = <<>>
    /\ b_test_networks = <<>>
    /\ b_pc = "idle"
    /\ nm_variant = 0
    /\ nm_p = 0
    /\ nm_cases = <<>>
    /\ nm_pc = "idle"
    /\ o_op = "idle"
    /\ o_a = 0
    /\ o_b = 0
    /\ o_s = 0
    /\ o_res = [raised |-> FALSE, value |-> 0]
    /\ o_test = <<>>
    /\ t_op = "idle"
    /\ t_lit_a = <<>>
    /\ t_lit_b = <<>>
    /\ t_a = [version |-> 0, value |-> 0]
    /\ t_b = [version |-> 0, value |-> 0]
    /\ t_case = <<>>
    /\ n_a = None
    /\ n_b = None
    /\ n_tries = 0
    /\ n_draws = 0
    /\ n_pc = "init"
    /\ n_case = NoCase
    /\ j_nets = <<>>
    /\ j_n_pairs = 0
    /\ j_pc = "idle"
    /\ j_k = 0
    /\ j_base = None
    /\ j_cases = <<>>

NextNonmerge == PickNonmergeable \/ AdjacentDiffPrefix \/ Containment \/ AdjacentMisaligned
                   \/ DisjointDraw \/ NonmergeableCase

\* the adjacency loops start from a pool of build_suite and any n_pairs
InitAdjacency ==
    /\ sample_n = None
    /\ addr_steps_cap = 0
    /\ sample_out = <<>>
    /\ sample_k = 0
    /\ sample_pc = "idle"
    /\ sample_ret = <<>>
    /\ c_outer = None
    /\ c_scale = "none"
    /\ c_budget = 0
    /\ c_new_prefix = 0
    /\ c_cases = <<>>
    /\ c_errors = <<>>
    /\ c_child = None
    /\ c_op = "idle"
    /\ m_a = None
    /\ m_b = None
    /\ m_op = "idle"
    /\ m_parent = None
    /\ m_res = Failed(NoReason)
    /\ m_case = NoCase
    /\ rng = 0
    /\ overlongs_imported = FALSE
    /\ runs = {}
    /\ a_scale = "none"
    /\ a_list = "none"
    /\ a_idx = 0
    /\ a_cases = <<>>
    /\ x_nets = <<>>
    /\ x_idx = 0
    /\ x_seen = {}
    /\ x_pairs = <<>>
    /\ x_tt = <<>>
    /\ x_pc = "idle"
    /\ s_nets = <<>>
    /\ s_i = 0
    /\ s_j = 0
    /\ s_union = <<>>
    /\ s_intersection = <<>>
    /\ s_difference = <<>>
    /\ s_pc = "idle"
    /\ b_n_v4 = 0
    /\ b_n_v6 = 0
    /\ b_nets = <<>>
    /\ b_test_networks = <<>>
    /\ b_pc = "idle"
    /\ nm_variant = 0
    /\ nm_p = 0
    /\ nm_cases = <<>>
    /\ nm_pc = "idle"
    /\ o_op = "idle"
    /\ o_a = 0
    /\ o_b = 0
    /\ o_s = 0
    /\ o_res = [raised |-> FALSE, value |-> 0]
    /\ o_test = <<>>
    /\ t_op = "idle"
    /\ t_lit_a = <<>>
    /\ t_lit_b = <<>>
    /\ t_a = [version |-> 0, value |-> 0]
    /\ t_b = [version |-> 0, value |-> 0]
    /\ t_case = <<>>
    /\ n_a = None
    /\ n_b = None
    /\ n_tries = 0
    /\ n_draws = 0
    /\ n_pc = "idle"
    /\ n_case = NoCase
    /\ j_nets \in suite_pools
    /\ j_n_pairs \in 0..MaxPairs
    /\ j_pc = "adjacent"
    /\ j_k = 0
    /\ j_base = None
    /\ j_cases = <<>>

NextAdjacency == AdjacentStep \/ ContainmentStep \/ DisjointStep \/ LoopEnd

Init == InitSample \/ InitContain \/ InitMerge \/ InitSeed \/ InitAssemble \/ InitPairs
           \/ InitSetops \/ InitSuite \/ InitNetmask \/ InitOverlong \/ InitSort \/ InitNonmerge \/ InitAdjacency

Next == NextSample \/ NextContain \/ NextMerge \/ NextSeed \/ NextAssemble \/ NextPairs
           \/ NextSetops \/ NextSuite \/ NextNetmask \/ NextOverlong \/ NextSort \/ NextNonmerge \/ NextAdjacency

Spec == Init /\ [][Next]_vars

SpecSample == InitSample /\ [][NextSample]_vars

SpecContain == InitContain /\ [][NextContain]_vars

SpecMerge == InitMerge /\ [][NextMerge]_vars

SpecSeed == InitSeed /\ [][NextSeed]_vars

SpecAssemble == InitAssemble /\ [][NextAssemble]_vars

SpecPairs == InitPairs /\ [][NextPairs]_vars

SpecSetops == InitSetops /\ [][NextSetops]_vars

SpecSuite == InitSuite /\ [][NextSuite]_vars

\* the false-pair builder alone and inside the list assembly
SpecFalsePairs == (InitContain \/ InitAssemble) /\ [][NextContain \/ NextAssemble]_vars

SpecSort == InitSort /\ [][NextSort]_vars

SpecNonmerge == InitNonmerge /\ [][NextNonmerge]_vars

SpecAdjacency == InitAdjacency /\ [][NextAdjacency]_vars

\* the two generators of byte encodings
SpecEncodings == (InitNetmask \/ InitOverlong) /\ [][NextNetmask \/ NextOverlong]_vars

C3_WalkBounded ==
    /\ sample_k <= addr_steps_cap
    /\ sample_k <= Max(0, num_addresses(sample_n) - 1)
    /\ Len(sample_out) <= sample_k + 6
    /\ sample_pc = "done" => Len(sample_ret) <= addr_steps_cap + 6

C3_Witness ==
    /\ sample_pc = "done"
    /\ sample_k = addr_steps_cap
    /\ sample_k >= 3
    /\ num_addresses(sample_n) > 4 * sample_k
    /\ Len(sample_ret) >= sample_k + 4

\* C2 (as stated): every case of true_net_containment_pairs_for_outer has its
\* inner network contained in outer, every case of
\* expand_false_pairs_for_outer has an inner network that is not a subnet of
\* outer: each expect flag equals the interval-containment answer.
C2_ExpectIsContainment ==
    c_op \in {"true_pairs", "false_pairs"} =>
        \A i \in 1..Len(c_cases) :
            LET inner == net(c_cases[i].inner)
                outer == net(c_cases[i].outer)
            IN  /\ outer = c_outer
                /\ c_cases[i].expect = (c_op = "true_pairs")
                /\ c_cases[i].expect =
                      (inner.prefixlen >= outer.prefixlen /\ subnet_of(inner, outer))

\* the first k children of n at new_prefix by index arithmetic
FirstChildren(n, new_prefix, k) ==
    [i \in 1..Min(k, Pow2(new_prefix - n.prefixlen)) |->
        Case(Network(n.version,
                     n.addr + (i - 1) * Pow2(max_prefixlen(n) - new_prefix),
                     new_prefix), n, TRUE)]

ChildrenAt(n, new_prefix, k) ==
    IF new_prefix > n.prefixlen /\ new_prefix <= max_prefixlen(n) /\ k > 0
    THEN FirstChildren(n, new_prefix, k) ELSE <<>>

\* C4 (as stated): the children emitted for a preset cap k at a deeper target
\* prefix are exactly the first min(k, number of children) children in index
\* order, child i being outer.network_address + i * 2^(W - target_prefix).
C4_FirstKChildren ==
    c_op = "true_pairs" =>
        LET params == SCALES[c_scale]
            kids == IF c_outer.version = 4
                    THEN ChildrenAt(c_outer, v4_target_prefix(c_outer, 25), params.v4_child25)
                         \o ChildrenAt(c_outer, v4_target_prefix(c_outer, 26), params.v4_child26)
                         \o ChildrenAt(c_outer, v4_target_prefix(c_outer, 27), params.v4_child27)
                    ELSE ChildrenAt(c_outer, v6_target(48), params.v6_child48)
                         \o ChildrenAt(c_outer, v6_target(64), params.v6_child64)
        IN  c_cases = <<Case(c_outer, c_outer, TRUE)>> \o kids \o true_ladder(c_outer, c_outer, 0)

\* C5: a request for children at a prefix shorter than the network's own
\* prefix p or longer than W yields no child: bounded_child returns None, and
\* subnet_cases records new_prefix = p - 1 (when p >= 1) and new_prefix = W + 1
\* as expect_error entries, never as success cases, and does not raise.
C5_BadPrefixIsError ==
    LET p == c_outer.prefixlen
        W == max_prefixlen(c_outer)
        bad(np) == np < p \/ np > W
    IN  /\ (c_op = "bounded_child" /\ bad(c_new_prefix)) => c_child = None
        /\ c_op = "subnet_cases" =>
              /\ \A i \in 1..Len(c_cases) :
                    /\ ~c_cases[i].raised
                    /\ c_cases[i].key = "new_prefix" => ~bad(c_cases[i].arg)
                    /\ c_cases[i].key = "prefixlen_diff" => ~bad(p + c_cases[i].arg)
              /\ \A i \in 1..Len(c_errors) :
                    /\ c_errors[i].parent = net_str(c_outer)
                    /\ bad(c_errors[i].new_prefix)
              /\ { c_errors[i].new_prefix : i \in 1..Len(c_errors) } =
                    (IF p >= 1 THEN {p - 1} ELSE {}) \cup {W + 1}

C5_Witness ==
    \/ /\ c_op = "bounded_child"
       /\ c_new_prefix > max_prefixlen(c_outer)
       /\ c_child = None
       /\ c_outer.prefixlen < max_prefixlen(c_outer)
    \/ /\ c_op = "subnet_cases"
       /\ Len(c_errors) = 2
       /\ Len(c_cases) = 3

\* the two halves of parent, by address arithmetic
LowerHalf(parent) == Network(parent.version, parent.addr, parent.prefixlen + 1)
UpperHalf(parent) ==
    Network(parent.version,
            parent.addr + Pow2(max_prefixlen(parent) - parent.prefixlen - 1),
            parent.prefixlen + 1)

\* the only network that can have a as one of its halves together with b
ParentCandidate(a, b) == Network(a.version, Min(a.addr, b.addr), a.prefixlen - 1)

\* a and b are the two halves of a canonical network with prefix < W
AreHalves(a, b) ==
    /\ a.version = b.version
    /\ a.version \in {4, 6}
    /\ a.prefixlen = b.prefixlen
    /\ a.prefixlen >= 1
    /\ ParentCandidate(a, b).addr % num_addresses(ParentCandidate(a, b)) = 0
    /\ {a, b} = {LowerHalf(ParentCandidate(a, b)), UpperHalf(ParentCandidate(a, b))}

\* C6: the two children of any parent with prefix < W are mergeable into that
\* parent, in either argument order, with no reason; every pair drawn by
\* random_mergeable_pair is reported can_merge = true with expect = its parent.
C6_SiblingsMergeToParent ==
    /\ m_op = "checked" =>
          (AreHalves(m_a, m_b) =>
              /\ m_res = [can |-> TRUE, sup |-> ParentCandidate(m_a, m_b),
                          reason |-> NoReason]
              /\ m_case.can_merge
              /\ m_case.expect = net_str(ParentCandidate(m_a, m_b)))
    /\ m_op = "random_mergeable" =>
          /\ AreHalves(m_a, m_b)
          /\ m_parent = ParentCandidate(m_a, m_b)
          /\ m_case.can_merge
          /\ m_case.expect = net_str(m_parent)
          /\ m_case.note = "random mergeable siblings"

C6_Witness ==
    \/ /\ m_op = "checked"
       /\ m_a.version = 6
       /\ m_a.prefixlen = Bits6
       /\ m_a = UpperHalf(supernet(m_a))
       /\ m_b = LowerHalf(supernet(m_a))
       /\ m_res.can
    \/ /\ m_op = "random_mergeable"
       /\ m_a.version = 4
       /\ m_case.can_merge

\* C7: mergeable_and_supernet(a, b) is true exactly when a and b have the same
\* family and the same prefix p >= 1, differ, and lie in the same /(p-1)
\* block; adjacent blocks straddling a /(p-1) boundary, identical, nested and
\* disjoint blocks are not mergeable.
SameBlockAbove(a, b) ==
    a.addr \div Pow2(max_prefixlen(a) - a.prefixlen + 1)
        = b.addr \div Pow2(max_prefixlen(a) - a.prefixlen + 1)

C7_MergeableIffSiblings ==
    m_op = "checked" =>
        (m_res.can <=>
            /\ m_a.version = m_b.version
            /\ m_a.prefixlen = m_b.prefixlen
            /\ m_a.prefixlen >= 1
            /\ m_a # m_b
            /\ SameBlockAbove(m_a, m_b))

\* adjacent same-prefix blocks on the two sides of a /(p-1) boundary
C7_Witness ==
    /\ m_op = "checked"
    /\ m_a.version = m_b.version
    /\ m_a.prefixlen = m_b.prefixlen
    /\ m_a.prefixlen >= 2
    /\ m_b.addr = m_a.addr + num_addresses(m_a)
    /\ ~SameBlockAbove(m_a, m_b)
    /\ ~m_res.can

\* C8: a failed mergeable_and_supernet returns no supernet and exactly one
\* reason, in the precedence different families, different prefix lengths,
\* prefix 0, non-singleton collapse, wrong resulting prefix, round-trip
\* mismatch; make_case emits expect = null exactly when can_merge is false.
C8_OneReasonInOrder ==
    m_op = "checked" =>
        /\ m_res.can => m_res.reason = NoReason
        /\ ~m_res.can =>
              /\ m_res.sup = None
              /\ m_res.reason =
                    (IF m_a.version # m_b.version THEN "different families"
                     ELSE IF m_a.prefixlen # m_b.prefixlen THEN "different prefix lengths"
                     ELSE IF m_a.prefixlen = 0 THEN "cannot supernet /0"
                     ELSE IF m_a # m_b THEN "does not collapse to single supernet"
                     ELSE "collapsed supernet is not one bit shorter")
        /\ m_case.can_merge = m_res.can
        /\ (m_case.expect = Null) <=> ~m_case.can_merge

\* adjacent blocks of different prefix lengths (10.0.0.0/25 and 10.0.0.128/26)
C8_Witness ==
    /\ m_op = "checked"
    /\ m_a.version = 4
    /\ m_b.version = 4
    /\ m_b.prefixlen = m_a.prefixlen + 1
    /\ m_b.addr = m_a.addr + num_addresses(m_a)
    /\ m_res = Failed("different prefix lengths")
    /\ m_case.expect = Null
    /\ m_case.note = "different prefix lengths"

\* C9 (as stated): every invocation of a randomized generator with the same
\* seed yields the same case list, whatever invocations preceded it, for
\* gen_overlongs.build(), gen_properties.build_suite(seed) and the seeded
\* gen_merge_cases run.
C9_SameSeedSameCases ==
    \A r1 \in runs : \A r2 \in runs :
        (r1.gen = r2.gen /\ r1.seed = r2.seed) => r1.out = r2.out

\* C10 (as stated): for every scale preset, the list a finished assembly
\* emits has no two entries with the same key: (address, network) for
\* assemble_addr_membership_cases, (inner, outer) for
\* assemble_net_containment_cases.
C10_NoDuplicateKeys ==
    (a_idx > Len(loops(a_list, a_scale)) /\ a_list # "none") =>
        \A i \in 1..Len(a_cases) : \A j \in 1..Len(a_cases) :
            i < j =>
                IF a_list = "addr_membership"
                THEN ~(/\ a_cases[i].address = a_cases[j].address
                       /\ a_cases[i].network = a_cases[j].network)
                ELSE ~(/\ a_cases[i].inner = a_cases[j].inner
                       /\ a_cases[i].outer = a_cases[j].outer)

\* C19 (as stated): the sample returned for a network n contains n's first and
\* last address; for a V4 network with prefix <= 30 it also contains first + 1
\* and last - 1; for a V4 /31 or /32 the boundary step contributes nothing but
\* the network's own first and last address.
C19_BoundariesSampled ==
    sample_pc = "done" =>
        LET n == sample_n
            lo == network_address(n)
            hi == broadcast_address(n)
        IN  /\ str(Address(n.version, lo)) \in Range(sample_ret)
            /\ str(Address(n.version, hi)) \in Range(sample_ret)
            /\ (n.version = 4 /\ n.prefixlen <= Bits4 - 2) =>
                  /\ str(Address(4, lo + 1)) \in Range(sample_ret)
                  /\ str(Address(4, hi - 1)) \in Range(sample_ret)
            /\ (n.version = 4 /\ n.prefixlen >= Bits4 - 1) =>
                  Range(derive_boundary_addresses(n)) \subseteq
                      {str(Address(4, lo)), str(Address(4, hi))}

\* C20 (as stated): the list returned by sample_addresses_for_network holds no
\* address twice and is in ascending order of the addresses' integer values.
C20_SampleAscending ==
    sample_pc = "done" =>
        \A i \in 1..Len(sample_ret) : \A j \in 1..Len(sample_ret) :
            i < j => addr(sample_ret[i]).value < addr(sample_ret[j]).value

\* the unordered pair a list entry stands for
Unordered(pair) == {pair.a, pair.b}

\* C11: build_augmented_pairs never emits the same unordered network pair
\* twice: the keys seen are exactly the unordered pairs kept, one list entry
\* per key, whatever the input list.
C11_NoSymmetricDuplicates ==
    /\ \A i \in 1..Len(x_pairs) : \A j \in 1..Len(x_pairs) :
          i < j => Unordered(x_pairs[i]) # Unordered(x_pairs[j])
    /\ { {k[1], k[2]} : k \in x_seen } = { Unordered(x_pairs[i]) : i \in 1..Len(x_pairs) }
    /\ \A k \in x_seen : k[1] = k[2] \/ key_lt(net(k[1]), net(k[2]))
    /\ x_pc = "done" => x_pairs = build_augmented_pairs(x_nets)

\* a pair was offered a second time and dropped
C11_Witness ==
    /\ x_pc = "done"
    /\ Len(x_nets) = 2
    /\ x_nets[1] # x_nets[2]
    /\ \A i \in 1..2 : /\ net(x_nets[i]).prefixlen > 0
                       /\ net(x_nets[i]).prefixlen < BITS(net(x_nets[i]).version)
    /\ Len(x_pairs) = 5

\* the canonical key of a row: the pair ordered by (family, address, prefix)
CanonKey(row) ==
    <<min_by_key(net(row.a), net(row.b)), max_by_key(net(row.a), net(row.b))>>

KeyPairLeq(k1, k2) ==
    \/ key_lt(k1[1], k2[1])
    \/ k1[1] = k2[1] /\ (k1[2] = k2[2] \/ key_lt(k1[2], k2[2]))

Permuted(q, f) == [i \in 1..Len(q) |-> q[f[i]]]

\* C12 (as stated): the rows emitted for overlaps_containment are ordered
\* lexicographically by the canonical pair key, and every permutation of the
\* input list yields the same rows in the same order.
C12_OrderedByKey ==
    x_pc = "done" =>
        /\ \A i \in 1..Len(x_tt) : \A j \in 1..Len(x_tt) :
              i < j => KeyPairLeq(CanonKey(x_tt[i]), CanonKey(x_tt[j]))
        /\ \A f \in Permutations(1..Len(x_nets)) :
              truth_table(build_augmented_pairs(Permuted(x_nets, f))) = x_tt

\* C13: every row of the truth table is consistent (a_subnet_of_b =
\* b_supernet_of_a, b_subnet_of_a = a_supernet_of_b, overlaps = one contains
\* the other), and a row made of the two children of one parent has overlaps
\* false and no containment flag set.
C13_RowsConsistent ==
    \A i \in 1..Len(x_tt) :
        LET r == x_tt[i]
        IN  /\ r.a_subnet_of_b = r.b_supernet_of_a
            /\ r.b_subnet_of_a = r.a_supernet_of_b
            /\ r.overlaps = (r.a_subnet_of_b \/ r.b_subnet_of_a)
            /\ AreHalves(net(r.a), net(r.b)) =>
                  /\ ~r.overlaps
                  /\ ~r.a_subnet_of_b
                  /\ ~r.b_subnet_of_a

\* a table holding a containment row and a sibling row
C13_Witness ==
    /\ x_pc = "done"
    /\ \E i \in 1..Len(x_tt) : x_tt[i].a_subnet_of_b /\ x_tt[i].overlaps
    /\ \E i \in 1..Len(x_tt) :
          AreHalves(net(x_tt[i].a), net(x_tt[i].b)) /\ ~x_tt[i].overlaps

\* the addresses of a network, and of a list of network literals
AddrsOf(n) == network_address(n)..broadcast_address(n)
AddrsOfAll(lits) == UNION { AddrsOf(net(lits[i])) : i \in 1..Len(lits) }

Intersect(a, b) == AddrsOf(a) \cap AddrsOf(b) # {}

\* C14: for two distinct networks of one family the intersection entry is the
\* empty list when they share no address, and otherwise the one-element list
\* holding the contained network (whose own range decomposes to itself).
C14_IntersectionIsSmaller ==
    \A i \in 1..Len(s_intersection) :
        LET e == s_intersection[i]
            a == net(e.a)
            b == net(e.b)
        IN  /\ a # b /\ a.version = b.version
            /\ ~Intersect(a, b) => e.expect = <<>>
            /\ Intersect(a, b) =>
                  e.expect = <<IF AddrsOf(a) \subseteq AddrsOf(b) THEN e.a ELSE e.b>>
            /\ strs(summarize_address_range(first_address(a), last_address(a))) = <<e.a>>

\* the function returned the two entries of a properly nested pair
C14_Witness ==
    /\ s_pc = "done"
    /\ Len(s_intersection) = 2
    /\ s_intersection[1].expect = <<s_intersection[1].b>>
    /\ s_intersection[2].expect = <<s_intersection[2].a>>
    /\ net(s_intersection[1].a).prefixlen >= 1

\* ascending, pairwise disjoint blocks
AscendingDisjoint(lits) ==
    \A i \in 1..Len(lits) : \A j \in 1..Len(lits) :
        i < j => broadcast_address(net(lits[i])) < network_address(net(lits[j]))

\* C15 (as stated): for two distinct networks a, b of one family the function
\* computes a difference entry, which is [a] when they are disjoint, empty when
\* a lies inside b, and otherwise ascending pairwise-disjoint networks whose
\* union is exactly the addresses of a that are not in b.
C15_DifferenceIsRemainder ==
    /\ s_pc # "raised"
    /\ \A i \in 1..Len(s_difference) :
          LET e == s_difference[i]
              a == net(e.a)
              b == net(e.b)
          IN  /\ ~Intersect(a, b) => e.expect = <<e.a>>
              /\ AddrsOf(a) \subseteq AddrsOf(b) => e.expect = <<>>
              /\ AscendingDisjoint(e.expect)
              /\ AddrsOfAll(e.expect) = AddrsOf(a) \ AddrsOf(b)

\* a block is canonical and cannot be doubled in place without leaving the span
LargestAt(n, hi) ==
    /\ n.addr % num_addresses(n) = 0
    /\ \/ n.prefixlen = 0
       \/ n.addr % (2 * num_addresses(n)) # 0
       \/ n.addr + 2 * num_addresses(n) - 1 > hi

\* C16: the 'covering' list of a union entry is the minimal cover of the span
\* from the lower first address to the higher last address: ascending,
\* contiguous, disjoint, covering exactly the span, each block the largest
\* aligned block at its start that stays inside the span.
C16_CoveringIsMinimalCover ==
    \A i \in 1..Len(s_union) :
        LET e == s_union[i]
            a == net(e.inputs[1])
            b == net(e.inputs[2])
            lo == Min(network_address(a), network_address(b))
            hi == Max(broadcast_address(a), broadcast_address(b))
            c == e.covering
        IN  /\ Len(c) >= 1
            /\ network_address(net(c[1])) = lo
            /\ broadcast_address(net(c[Len(c)])) = hi
            /\ \A k \in 1..(Len(c) - 1) :
                  network_address(net(c[k + 1])) = broadcast_address(net(c[k])) + 1
            /\ \A k \in 1..Len(c) :
                  /\ net(c[k]).version = a.version
                  /\ LargestAt(net(c[k]), hi)
            /\ AddrsOfAll(c) = lo..hi

\* a span that needs several blocks
C16_Witness ==
    /\ s_pc = "done"
    /\ \E i \in 1..Len(s_union) : Len(s_union[i].covering) >= 3

\* the family width and the block size a record stands for
RecordBits(r) == IF r.family = "IPv4" THEN Bits4 ELSE Bits6
RecordVersion(r) == IF r.family = "IPv4" THEN 4 ELSE 6
RecordSize(r) == Pow2(RecordBits(r) - r.prefix)

\* C17: every test_networks record describes a canonical network: the host
\* bits of the network address are zero (loose inputs are masked, and every
\* collected network has its record), network_address <= last_address,
\* last - first + 1 = 2^(W - prefix), and num_addresses and size_be_hex
\* (minimal length, no leading zero byte) both decode to that size, the whole
\* address space of a /0 included.
C17_RecordsCanonical ==
    /\ b_pc = "adjacency" => Len(b_test_networks) = Len(b_nets)
    /\ \A i \in 1..Len(b_test_networks) :
          LET r == b_test_networks[i]
              lo == addr(r.network_address).value
              hi == addr(r.last_address).value
          IN  /\ lo % RecordSize(r) = 0
              /\ lo <= hi
              /\ hi - lo + 1 = RecordSize(r)
              /\ r.address = r.network_address
              /\ net(r.cidr) = Network(RecordVersion(r), lo, r.prefix)
              /\ ParseDigits(r.num_addresses, 10) = RecordSize(r)
              /\ ParseDigits(r.size_be_hex, HexRadix) = RecordSize(r)
              /\ Len(r.size_be_hex) % 2 = 0
              /\ ~(r.size_be_hex[1] = CharOfDigit(0) /\ r.size_be_hex[2] = CharOfDigit(0))

\* the records of the seeds (given with host bits set), of a random network
\* besides them, and of a V6 /0 whose size needs more than one byte
C17_Witness ==
    /\ b_pc = "adjacency"
    /\ Len(b_nets) > Cardinality(Range(seed_nets(4) \o seed_nets(6)))
    /\ \E i \in 1..Len(b_test_networks) :
          /\ b_test_networks[i].family = "IPv6"
          /\ b_test_networks[i].prefix = 0
          /\ Len(b_test_networks[i].size_be_hex) > 2

\* C18 (as stated): in every test_networks record broadcast equals
\* last_address for an IPv4 network and is null for an IPv6 network.
C18_BroadcastIsLast ==
    \A i \in 1..Len(b_test_networks) :
        LET r == b_test_networks[i]
        IN  IF r.family = "IPv4" THEN r.broadcast = r.last_address
            ELSE r.broadcast = Null

\* the depth of a subnet_cases entry below its parent
CaseDepth(c) ==
    IF c.key = "prefixlen_diff" THEN c.arg ELSE c.arg - net(c.parent).prefixlen

\* C21: for a network n with prefix p, subnet_cases emits one entry for each
\* depth d in {1, 2, 4} with p + d <= W and no other; its expect list has 2^d
\* children at prefix p + d in ascending order, child i at
\* n.network_address + i * 2^(W - p - d), so the children exactly cover n.
C21_ChildrenByArithmetic ==
    c_op = "subnet_cases" =>
        LET n == c_outer
            p == n.prefixlen
            W == max_prefixlen(n)
        IN  /\ [i \in 1..Len(c_cases) |-> CaseDepth(c_cases[i])] =
                  SelectSeq(<<1, 2, 4>>, LAMBDA d : p + d <= W)
            /\ \A k \in 1..Len(c_cases) :
                  LET d == CaseDepth(c_cases[k])
                      e == c_cases[k].expect
                  IN  /\ c_cases[k].parent = net_str(n)
                      /\ Len(e) = Pow2(d)
                      /\ \A i \in 1..Len(e) :
                            e[i] = net_str(Network(n.version,
                                                   n.addr + (i - 1) * Pow2(W - p - d),
                                                   p + d))
                      /\ AddrsOfAll(e) = AddrsOf(n)

\* a network split at all three depths
C21_Witness ==
    /\ c_op = "subnet_cases"
    /\ Len(c_cases) = 3
    /\ Len(c_cases[3].expect) = 16
    /\ c_outer.addr > 0

\* the inners the five strategies offer for outer, in the documented order
FalseCandidates(outer) ==
    LET p == outer.prefixlen
        W == max_prefixlen(outer)
        parent == supernet(outer)
        sib == sibling_of(outer)
        child_at(d) == IF sib # None /\ p + d <= W
                       THEN <<Network(sib.version, sib.addr, p + d)>> ELSE <<>>
    IN  <<parent>>
        \o (IF sib # None THEN <<sib>> ELSE <<>>)
        \o child_at(1)
        \o <<supernet(parent), supernet(supernet(parent))>>
        \o child_at(2) \o child_at(3) \o child_at(4)

IsTrueCase(c) == c.expect

\* the true cases of a preset, from the corpus and the child counts alone
TrueCasesOf(scale, version) ==
    LET nets == canonical_nets(version, scale)
        F[i \in 0..Len(nets)] ==
            IF i = 0 THEN <<>>
            ELSE F[i - 1] \o true_net_containment_pairs_for_outer(nets[i], SCALES[scale])
    IN  F[Len(nets)]

\* C30: expand_false_pairs_for_outer(outer, budget) returns at most
\* max(0, budget) cases, namely the first of the inners offered in the order
\* parent, sibling, sibling's child, two wider parents, deeper sibling
\* children, each with expect = false; in the assembled net-containment list
\* every true case precedes every false case and the true cases are those of
\* the corpus and the child counts, whatever the budget.
C30_FalsePairsBudgeted ==
    /\ c_op = "false_pairs" =>
          LET cand == FalseCandidates(c_outer)
              kept == Min(Max(0, c_budget), Len(cand))
          IN  /\ Len(c_cases) <= Max(0, c_budget)
              /\ c_cases = [i \in 1..kept |-> Case(cand[i], c_outer, FALSE)]
    /\ a_list = "net_containment" =>
          /\ \A i \in 1..Len(a_cases) : \A j \in 1..Len(a_cases) :
                (i < j /\ a_cases[j].expect) => a_cases[i].expect
          /\ a_idx > Len(canonical_nets(4, a_scale)) + Len(canonical_nets(6, a_scale)) =>
                SelectSeq(a_cases, IsTrueCase) =
                    TrueCasesOf(a_scale, 4) \o TrueCasesOf(a_scale, 6)

\* every strategy contributed and the budget cut the list
C30_Witness ==
    /\ c_op = "false_pairs"
    /\ c_budget = 7
    /\ Len(c_cases) = 7
    /\ Len(FalseCandidates(c_outer)) = 8

\* C22: build_cases appends one case per family and prefix p in [0, W], V4
\* first, in ascending prefix order; the case's netmask_hex is the W-bit value
\* 2^W - 2^(W - p) written in exactly the family's number of bytes, and the
\* length check never raises.
C22_NetmaskPerPrefix ==
    /\ nm_pc # "raised"
    /\ \A i \in 1..Len(nm_cases) :
          LET c == nm_cases[i]
              v4 == i <= Bits4 + 1
              W == IF v4 THEN Bits4 ELSE Bits6
              p == IF v4 THEN i - 1 ELSE i - (Bits4 + 1) - 1
              octets == (W + ByteBits - 1) \div ByteBits
          IN  /\ c.version = (IF v4 THEN "V4" ELSE "V6")
              /\ c.prefix = p
              /\ c.octet_count = octets
              /\ Len(c.netmask_hex) = 2 * octets
              /\ ParseDigits(c.netmask_hex, HexRadix) = Pow2(W) - Pow2(W - p)
    /\ nm_pc = "done" => Len(nm_cases) = (Bits4 + 1) + (Bits6 + 1)

C22_Witness ==
    /\ nm_pc = "done"
    /\ Len(nm_cases) = (Bits4 + 1) + (Bits6 + 1)
    /\ nm_cases[Bits4 + 1].prefix = Bits4
    /\ nm_cases[Len(nm_cases)].prefix = Bits6

\* C23: for every x of the 129-bit domain op_inv(x) is 2^129 - 1 - x, a value
\* of the domain, and op_inv(op_inv(x)) is x; op_inv(0) is 2^129 - 1, whose
\* encoding has one byte more than an IPv6 address.
C23_InvIsComplement ==
    o_op = "INV" =>
        /\ o_res.value = MAX_129 - o_a
        /\ o_res.value \in 0..MAX_129
        /\ op_inv(o_res.value) = o_a
        /\ o_a = 0 =>
              /\ o_res.value = Pow2(OverlongBits) - 1
              /\ ~o_test.output.raised
              /\ Len(o_test.output.value) = 2 * (packed_length(6) + 1)

C23_Witness ==
    /\ o_op = "INV"
    /\ o_a = 0
    /\ o_res.value = MAX_129
    /\ Len(o_test.output.value) = 2 * (packed_length(6) + 1)

\* C24: for every x of the 129-bit domain and every shift amount s in
\* [0, 128], shifting x left by s and the result right by s gives
\* x mod 2^(129 - s): the top s bits are cleared, the others are unchanged.
C24_ShiftRoundTrip ==
    (o_op \in {"op_shl", "SHL"} /\ o_s \in 0..Bits6) =>
        /\ o_res = op_shl(o_a, o_s)
        /\ ~o_res.raised
        /\ ~op_shr(o_res.value, o_s).raised
        /\ op_shr(o_res.value, o_s).value = o_a % Pow2(OverlongBits - o_s)

C24_Witness ==
    /\ o_op = "op_shl"
    /\ o_s = Bits6
    /\ o_a = MAX_129
    /\ op_shr(o_res.value, o_s).value = 1

\* C25: op_shl and op_shr raise for every shift amount below 0 or above 128
\* and return for every amount in [0, 128]; op_shl returns
\* (a * 2^s) mod 2^129 and op_shr returns floor(a / 2^s).
C25_ShiftRange ==
    o_op \in {"op_shl", "op_shr"} =>
        /\ o_res.raised <=> (o_s < 0 \/ o_s > Bits6)
        /\ (o_op = "op_shl" /\ ~o_res.raised) =>
              o_res.value = (o_a * Pow2(o_s)) % Pow2(OverlongBits)
        /\ (o_op = "op_shr" /\ ~o_res.raised) =>
              /\ o_res.value * Pow2(o_s) <= o_a
              /\ o_a < (o_res.value + 1) * Pow2(o_s)

C25_Witness ==
    /\ o_op = "op_shr"
    /\ o_s = Bits6 + 1
    /\ o_a = MAX_129
    /\ o_res.raised

\* C26: encode_overlong_hex rejects every integer outside [0, 2^129 - 1],
\* writes a value below 2^128 in the bytes of an IPv6 address and any other
\* value in one byte more, and the bytes read as a big-endian integer are the
\* value; every operation result of build() is a value of the domain, so the
\* operands and the result of every test record encode.
C26_EncodingCanonical ==
    /\ o_op = "encode_overlong_hex" =>
          /\ o_res.raised <=> (o_a < 0 \/ o_a > Pow2(OverlongBits) - 1)
          /\ ~o_res.raised =>
                /\ Len(o_res.value) =
                      2 * (IF o_a < Pow2(Bits6) THEN packed_length(6) ELSE packed_length(6) + 1)
                /\ ParseDigits(o_res.value, HexRadix) = o_a
    /\ o_op \in {"INV", "AND", "OR", "XOR", "SHL", "SHR"} =>
          /\ ~o_res.raised
          /\ o_res.value \in 0..(Pow2(OverlongBits) - 1)
          /\ o_test # Null
          /\ ~o_test.input.raised
          /\ ~o_test.output.raised
          /\ ParseDigits(o_test.output.value, HexRadix) = o_res.value
          /\ o_op \in {"AND", "OR", "XOR"} => ~o_test.argument.raised
    /\ (o_op \in {"op_shl", "op_shr"} /\ ~o_res.raised) =>
          o_res.value \in 0..(Pow2(OverlongBits) - 1)

C26_Witness ==
    /\ o_op = "encode_overlong_hex"
    /\ o_a = TWO_POW_128
    /\ ~o_res.raised
    /\ Len(o_res.value) = 2 * (packed_length(6) + 1)

\* C27: every comparison case pairs two literals of the family its version
\* field names; its cmp is -1, 0 or 1 as the integer of a is below, equal to
\* or above the integer of b, so swapping the operands negates it; cmp is 0
\* exactly when the two literals denote one address, also when the pair was
\* given in two spellings.
C27_CmpBySignOfDifference ==
    t_op \in {"curated", "random"} =>
        LET c == t_case
            a == addr(c.a)
            b == addr(c.b)
            fam == IF c.version = "V4" THEN 4 ELSE 6
        IN  /\ c.version \in {"V4", "V6"}
            /\ a.version = fam
            /\ b.version = fam
            /\ a = t_a
            /\ b = t_b
            /\ c.cmp = (IF a.value < b.value THEN -1 ELSE IF a.value = b.value THEN 0 ELSE 1)
            /\ c.cmp = -sort_case(fam, t_b, t_a).cmp
            /\ c.cmp = 0 <=> a = b
            /\ t_op = "curated" => (c.cmp = 0 <=> addr(t_lit_a) = addr(t_lit_b))

C27_Witness ==
    /\ t_op = "curated"
    /\ t_lit_a # t_lit_b
    /\ addr(t_lit_a) = addr(t_lit_b)
    /\ t_case.cmp = 0
    /\ t_case.a = t_case.b

\* C28: every pair random_nonmergeable_pair returns, the disjoint loop's
\* give-up included, is reported not mergeable, so no case noted
\* "random non-mergeable" has can_merge true; the disjoint loop makes at most
\* 11 draws.
C28_NonmergeableNeverMerges ==
    /\ n_draws <= 11
    /\ n_pc = "case" =>
          /\ n_case.note = "random non-mergeable"
          /\ ~n_case.can_merge
          /\ ~mergeable_and_supernet(n_a, n_b).can

\* C29: when the disjoint step has drawn a base whose prefix is below the
\* deepest splittable one, it has appended a pair of subnets of the base with
\* a gap between them, tagged relation = disjoint, are_adjacent = false,
\* overlaps = false; so a suite built with n_pairs >= 3 from a pool holding
\* such a base can hold cases of all three relations.
C29_DisjointEmitted ==
    (j_pc = "disjoint" /\ j_k >= 1 /\ j_n_pairs >= 3
        /\ j_base.prefixlen < max_prefixlen(j_base) - 1) =>
        /\ Len(j_cases) >= 1
        /\ LET c == j_cases[Len(j_cases)]
               a == net(c.a_cidr)
               b == net(c.b_cidr)
           IN  /\ c.relation = "disjoint"
               /\ ~c.are_adjacent
               /\ ~c.overlaps
               /\ subnet_of(a, j_base)
               /\ subnet_of(b, j_base)
               /\ broadcast_address(a) + 1 < network_address(b)

====
